---- MODULE Spec2Model ----
(***************************************************************************)
(* Model of the computer-agent core (kimasplund/computer-agent):           *)
(*   - AnthropicClient (src/src/anthropic.py): history cleaning, response  *)
(*     cache, rate limiter, retry loop, mock responses, count_tokens;      *)
(*   - ComputerControl (src/src/computer.py): safety gate and dispatch of  *)
(*     perform_action, the coordinate maps, get_region_of_interest;        *)
(*   - Store (src/src/store.py) and the threads MainWindow                 *)
(*     (src/src/window.py) starts: the loop of run_agent, stop_run, the    *)
(*     history file and retrieve_message_by_id.                            *)
(*                                                                         *)
(* Specifications: Spec (get_next_action on one client), SpecClean         *)
(* (_clean_message_history), SpecExec (perform_action), SpecTokens         *)
(* (count_tokens), SpecMap (the coordinate maps), SpecRun (one Store       *)
(* driven by the window, every disk write succeeding), SpecDisk (the       *)
(* first run of a Store on a disk that may fail), SpecRetrieve             *)
(* (retrieve_message_by_id), SpecRegion (get_region_of_interest),          *)
(* SpecCadence (a long first run, every disk write succeeding), SpecStop   *)
(* (the first run with stop_run taken line by line).                       *)
(*                                                                         *)
(* Time.  The code stores timestamps ts = time.time() and only ever uses   *)
(* them in differences now - ts that it compares with cache_ttl or         *)
(* rate_limit_window.  The model stores, for every timestamp, its age      *)
(* now - ts in whole seconds; when time passes every age grows.  An age    *)
(* stops growing once it is beyond every value the code compares it with   *)
(* (AgeTtl, AgeWindow), which changes no comparison.  Durations handed to  *)
(* time.sleep are kept exactly, in units of 1/Resolution second; a sleep   *)
(* of d returns at the first whole second that is at least d later         *)
(* (time.sleep never returns early).                                       *)
(*                                                                         *)
(* Hashes.  hashlib.md5 is taken to be injective on the strings it is      *)
(* given, so a hash is modelled by the value that is serialised.           *)
(***************************************************************************)
EXTENDS Integers, Sequences, FiniteSets, TLC

VARIABLES
    \* ---- AnthropicClient ----
    use_mock_api,        \* self.use_mock_api (environment, fixed by Init)
    enable_caching,      \* self.enable_caching (configuration, fixed by Init)
    api_calls,           \* self.api_calls: ages of the recorded calls
    message_hash_cache,  \* self.message_hash_cache: hash -> [v, age]
    response_cache,      \* self.response_cache: hash -> [v, age]
    token_count_cache,   \* self.token_count_cache: hash -> [v, age]
    current_prompt,      \* prompt_manager.get_current_prompt()
    gw_pc,               \* position of the thread inside get_next_action
    call,                \* locals of the get_next_action call in progress
    result,              \* what the gateway operation hands to its caller
    attempt_times,       \* history: ages of the network attempts of the last window
    success_times,       \* history: ages of the successful calls of the last window
    net,                 \* history: last network success per conversation hash
    count_call,          \* the last count_tokens call: its text, what it found
                         \* and called, what it returned or raised
    map_call,            \* the last coordinate mapping: its geometry, its point
                         \* and what the two maps returned
    region_call,         \* the last get_region_of_interest call and its result
    \* ---- Store and the threads of the window ----
    running,             \* self.running, the run flag
    error,               \* self.error
    loop_pc,             \* position of each AgentThread inside Store.run_agent
    loop_action,         \* the action each thread decoded and hands to perform_action
    run_button,          \* the run button is enabled
    stopped,             \* history: stop_run was called while the thread was alive
    retry_count,         \* retry_count, a local of each thread's run_agent call
    stop_message_id,     \* stop_message_id, a local of stop_run: the index it
                         \* read, None outside lines 395-396
    history_file,        \* the pickle file: the history it holds, None when
                         \* absent or not loadable
    save_call,           \* history: how the last _save_history_to_disk went
    retrieve_call,       \* the last retrieve_message_by_id call and its result
    \* ---- _clean_message_history as a function ----
    run_history,         \* the history handed to _clean_message_history
    cleaned_history,     \* what it returned
    clean_pc,
    \* ---- ComputerControl ----
    exec_now,            \* time.time() as read by ComputerControl, seconds
    screenshot_cache,    \* self.screenshot_cache: key -> [data, ts]
    pointer,             \* pyautogui.position(), in 1/PixelUnit screen pixels
    last_click_position, \* self.last_click_position
    action,              \* the action handed to the last perform_action
    os_calls,            \* OS input calls dispatched by the last perform_action
    exec_result          \* what the last perform_action returned or raised

gvars == <<use_mock_api, enable_caching, api_calls, message_hash_cache, response_cache,
           token_count_cache, current_prompt, gw_pc, call, result,
           attempt_times, success_times, net>>
cvars == <<run_history, cleaned_history, clean_pc>>
evars == <<exec_now, screenshot_cache, pointer,
           last_click_position, action, os_calls, exec_result>>
tvars == <<count_call>>
mvars == <<map_call, region_call>>
svars == <<running, error, loop_pc, loop_action, run_button, stopped, retry_count,
           stop_message_id>>
dvars == <<history_file, save_call, retrieve_call>>
vars == <<gvars, cvars, evars, tvars, mvars, svars, dvars>>

(***************************************************************************)
(* Configuration values (bounds of the model) and program constants.       *)
(***************************************************************************)
cache_ttl == 2
rate_limit_window == 3
max_calls_per_minute == 1
history_truncation_threshold == 2
truncate_history == TRUE
max_retries == 3
Resolution == 8 * 5
InitialRetryDelay == Resolution
RateLimitBuffer == Resolution \div 10
Jitter == {0, 1}
AgeTtl == cache_ttl + 1
AgeWindow == rate_limit_window

None == {}
Some(x) == {x}
The(s) == CHOOSE x \in s : TRUE

CeilDiv(a, b) == (a + b - 1) \div b
SleepSeconds(d) == CeilDiv(d, Resolution)

Min(S) == CHOOSE x \in S : \A y \in S : x <= y
Max(S) == CHOOSE x \in S : \A y \in S : x >= y
Range(s) == {s[i] : i \in DOMAIN s}
EmptyMap == [k \in {} |-> 0]
Put(m, k, v) == [x \in (DOMAIN m) \cup {k} |-> IF x = k THEN v ELSE m[x]]
Restrict(m, K) == [x \in K |-> m[x]]
SelectSeqIdx(s, Keep(_)) ==
    LET F[i \in 0..Len(s)] ==
            IF i = 0 THEN << >>
            ELSE IF Keep(i) THEN Append(F[i - 1], s[i]) ELSE F[i - 1]
    IN F[Len(s)]

\* Ages after d more seconds.
Older(a, d, cap) == IF a + d < cap THEN a + d ELSE cap
OlderSeq(s, d, cap) == [i \in DOMAIN s |-> Older(s[i], d, cap)]
OlderMap(m, d, cap) == [k \in DOMAIN m |-> [m[k] EXCEPT !.age = Older(@, d, cap)]]

(***************************************************************************)
(* Messages and content blocks.                                            *)
(*   sdk  : the message is a BetaMessage object, not a dict                *)
(*   list : its content is a list of blocks (otherwise the string `text`)  *)
(*   obj  : the block is an SDK block object, not a dict                   *)
(*   input: the input dict of a tool_use block; a key that is absent or    *)
(*          None is the empty set                                          *)
(***************************************************************************)
NoInput ==
    [action_type |-> None, action |-> None, coordinate |-> None, xy |-> None,
     text |-> None, success |-> None, error |-> None,
     skip_before_screenshot |-> None, skip_after_screenshot |-> None]
TextBlock(o, t) ==
    [type |-> "text", id |-> "", name |-> "", text |-> t, obj |-> o,
     input |-> NoInput]
ToolUseBlock(i, n, inp) ==
    [type |-> "tool_use", id |-> i, name |-> n, text |-> "", obj |-> TRUE,
     input |-> inp]
ToolUse(o, i, n) == [ToolUseBlock(i, n, NoInput) EXCEPT !.obj = o]
ToolResult(i) ==
    [type |-> "tool_result", id |-> i, name |-> "", text |-> "", obj |-> FALSE,
     input |-> NoInput]

DictMsg(r, mid, blocks) ==
    [role |-> r, sdk |-> FALSE, id |-> mid, list |-> TRUE, text |-> "", content |-> blocks]
StrMsg(r, mid, t) ==
    [role |-> r, sdk |-> FALSE, id |-> mid, list |-> FALSE, text |-> t, content |-> << >>]
SdkMsg(mid, blocks) ==
    [role |-> "assistant", sdk |-> TRUE, id |-> mid, list |-> TRUE, text |-> "", content |-> blocks]

(***************************************************************************)
(* AnthropicClient._clean_message_history                                  *)
(***************************************************************************)
\* First pass: the dict sent to the API keeps role and content only.
MsgDict(m) == [role |-> m.role, list |-> m.list, text |-> m.text, content |-> m.content]

\* First pass: tool_use ids tracked for one message.  A BetaMessage's blocks
\* are inspected by attribute; a dict message's blocks only when they are dicts.
TrackedToolUseIds(m) ==
    IF m.sdk
    THEN IF m.role = "assistant"
         THEN {b.id : b \in {x \in Range(m.content) : x.type = "tool_use"}}
         ELSE {}
    ELSE IF m.role = "assistant" /\ m.list
         THEN {b.id : b \in {x \in Range(m.content) : ~x.obj /\ x.type = "tool_use"}}
         ELSE {}

ToolUseIds(h) == UNION {TrackedToolUseIds(h[i]) : i \in DOMAIN h}

\* Second pass: ids of the tool_result dict blocks of user messages.
ResultIds(c) ==
    UNION {IF c[i].role = "user" /\ c[i].list
           THEN {b.id : b \in {x \in Range(c[i].content) : ~x.obj /\ x.type = "tool_result"}}
           ELSE {} : i \in DOMAIN c}

\* Third pass: a message is a problem when one of its dict blocks is a
\* tool_use whose id has no result.
HasProblem(msg, missing) ==
    /\ msg.role = "assistant"
    /\ msg.list
    /\ \E b \in Range(msg.content) : ~b.obj /\ b.type = "tool_use" /\ b.id \in missing

DefaultSystemMessage ==
    [role |-> "system", list |-> FALSE, text |-> "You are Claude", content |-> << >>]

CleanMessageHistory(h) ==
    LET converted == [i \in DOMAIN h |-> MsgDict(h[i])]
        missing_result_ids == ToolUseIds(h) \ ResultIds(converted)
        filtered ==
            IF missing_result_ids # {}
            THEN SelectSeqIdx(converted,
                              LAMBDA i : ~HasProblem(converted[i], missing_result_ids))
            ELSE converted
    IN IF filtered = << >> THEN <<DefaultSystemMessage>> ELSE filtered

(***************************************************************************)
(* Inputs of the gateway: histories as the Orchestrator builds them, the   *)
(* responses and failures the remote API can produce.                      *)
(***************************************************************************)
Instruction == StrMsg("user", "user_s_0", "open the browser")
Assistant1 == SdkMsg("msg_1", <<ToolUse(TRUE, "t1", "computer")>>)
Screenshot1 == DictMsg("user", "user_s_2", <<ToolResult("t1")>>)
Assistant2 == SdkMsg("msg_2", <<ToolUse(TRUE, "t2", "computer")>>)
Screenshot2 == DictMsg("user", "user_s_4", <<ToolResult("t2")>>)

GatewayHistories ==
    { << >>,
      <<Instruction>>,
      <<Instruction, Assistant1, Screenshot1, Assistant2, Screenshot2>> }

Responses ==
    { SdkMsg("msg_a", <<ToolUse(TRUE, "t3", "computer")>>),
      SdkMsg("msg_b", <<TextBlock(TRUE, "which browser?")>>) }

Prompts == {"prompt_1", "prompt_2"}

\* anthropic.APIStatusError carries status_code; APITimeoutError is an
\* APIError without one; anything else is caught by `except Exception`.
Statuses == {401, 429, 501, 503}
Failures ==
    [kind : {"APIStatusError"}, status : {Some(st) : st \in Statuses}]
    \cup [kind : {"APITimeoutError", "Exception"}, status : {None}]
NoFailure == [kind |-> "", status |-> None]
Outcomes ==
    [ok : {TRUE}, response : {Some(r) : r \in Responses}, failure : {NoFailure}]
    \cup [ok : {FALSE}, response : {None}, failure : Failures]

(***************************************************************************)
(* AnthropicClient helpers                                                 *)
(***************************************************************************)
\* _compute_hash of a list: every dict is serialised with its keys sorted.
ComputeHashList(data) ==
    [i \in DOMAIN data |->
        <<"content", data[i].content, data[i].list, data[i].text, "role", data[i].role>>]
\* _compute_hash of any other value: str(data).
ComputeHashValue(data) == <<"str", data>>

\* Mutant of CacheFresh: an entry one second past cache_ttl still served.
CacheFresh_Late(age) == age <= cache_ttl + 1
\* Mutant of CacheFresh: the comparison made strict.
CacheFresh_Strict(age) == age < cache_ttl
\* get_next_action, line 392: now - timestamp <= self.cache_ttl.
CacheFresh(age) == age <= cache_ttl
\* _clean_cache: now - ts > self.cache_ttl.
CacheExpired(age) == age > cache_ttl

\* _apply_rate_limiting: the timestamps kept (now - ts < window), the oldest
\* of them, and the time to wait (0: no sleep).
RecentCalls(calls) == SelectSeq(calls, LAMBDA a : a < rate_limit_window)
OldestCallAge(calls) == Max(Range(calls))
\* Mutant of RateLimitWait: the limit compared with > instead of >=.
RateLimitWait_OverLimit(calls) ==
    LET kept == RecentCalls(calls)
    IN IF Len(kept) > max_calls_per_minute
       THEN (rate_limit_window - OldestCallAge(kept)) * Resolution + RateLimitBuffer
       ELSE 0
\* Mutant of RateLimitWait: waits for the time elapsed since the oldest call
\* instead of the time the oldest call still has in the window.
RateLimitWait_Elapsed(calls) ==
    LET kept == RecentCalls(calls)
    IN IF Len(kept) >= max_calls_per_minute
       THEN OldestCallAge(kept) * Resolution + RateLimitBuffer
       ELSE 0
RateLimitWait(calls) ==
    LET kept == RecentCalls(calls)
    IN IF Len(kept) >= max_calls_per_minute
       THEN LET wait_time ==
                    (rate_limit_window - OldestCallAge(kept)) * Resolution
                    + RateLimitBuffer
            IN IF wait_time > 0 THEN wait_time ELSE 0
       ELSE 0

\* get_next_action, line 471.
RetryableStatuses == {429, 500, 502, 503, 504}
\* Mutant of IsRetryable: the rate-limit status left out of the tuple.
IsRetryable_ServerOnly(f) ==
    /\ f.kind \in {"APIStatusError", "APITimeoutError"}
    /\ f.status # None
    /\ f.status \subseteq (RetryableStatuses \ {429})
IsRetryable(f) ==
    /\ f.kind \in {"APIStatusError", "APITimeoutError"}
    /\ f.status # None
    /\ f.status \subseteq RetryableStatuses

\* get_next_action, line 473: retry_delay *= (2 + random.random()); the
\* random term is 0 or 1/2.
\* Mutant of NextRetryDelay: the factor applied to the initial delay instead
\* of the previous one.
NextRetryDelay_NotCompounded(d, j) == (InitialRetryDelay * (4 + j)) \div 2
NextRetryDelay(d, j) == (d * (4 + j)) \div 2

\* get_next_action, lines 428-447: a response without a tool_use block gets
\* a synthetic finish_run block appended.
FirstText(blocks) ==
    LET idx == {i \in DOMAIN blocks : blocks[i].type = "text"}
    IN IF idx = {} THEN "" ELSE blocks[Min(idx)].text
NeedsMoreInformation(t) == <<"Claude needs more information: ", t>>
SyntheticFinish(t) ==
    ToolUseBlock("synthetic_finish", "finish_run",
                 [NoInput EXCEPT !.success = Some(FALSE),
                                 !.error = Some(NeedsMoreInformation(t))])
\* Mutant of RepairNoToolUse: the response returned as it came.
RepairNoToolUse_Skipped(r) == r
RepairNoToolUse(r) ==
    IF \E b \in Range(r.content) : b.type = "tool_use"
    THEN r
    ELSE [r EXCEPT !.content = Append(@, SyntheticFinish(FirstText(r.content)))]

\* _generate_mock_response, lines 671-702: the text of the last user message
\* of the history, as the sequence of the text pieces that are concatenated.
LastUserMessage(h) ==
    LET idx == {i \in DOMAIN h : h[i].role = "user"}
    IN IF idx = {} THEN None ELSE Some(h[Max(idx)])
UserContent(h) ==
    IF LastUserMessage(h) = None THEN << >>
    ELSE LET m == The(LastUserMessage(h))
         IN IF m.list
            THEN [i \in DOMAIN SelectSeq(m.content, LAMBDA b : b.type = "text")
                     |-> SelectSeq(m.content, LAMBDA b : b.type = "text")[i].text]
            ELSE <<m.text>>
\* `term in user_content.lower()` for the user texts of the model.
TermsIn(t) ==
    CASE t = "Take a screenshot" -> {"screenshot", "screen"}
      [] t = "click OK, then type hello" -> {"click", "type"}
      [] t = "write a note" -> {"write"}
      [] OTHER -> {}
Mentions(content, terms) ==
    \E i \in DOMAIN content : TermsIn(content[i]) \cap terms # {}
\* Lines 681-738: the tool call and the text chosen by keyword.
MockAction(content) ==
    IF Mentions(content, {"screenshot", "screen", "capture"})
    THEN [name |-> "computer",
          input |-> [NoInput EXCEPT !.action_type = Some("screenshot")],
          text |-> "I'll take a screenshot of the current screen."]
    ELSE IF Mentions(content, {"click", "press", "select"})
    THEN [name |-> "computer",
          input |-> [NoInput EXCEPT !.action_type = Some("mouse_click"),
                                    !.xy = Some(<<500, 400>>)],
          text |-> "I'll click at position (500, 400) on the screen."]
    ELSE IF Mentions(content, {"type", "write", "input"})
    THEN [name |-> "computer",
          input |-> [NoInput EXCEPT !.action_type = Some("keyboard_type"),
                                    !.text = Some("Hello, this is a mock input")],
          text |-> "I'll type the requested text."]
    ELSE [name |-> "finish_run",
          input |-> [NoInput EXCEPT !.success = Some(TRUE)],
          text |-> "I understand your request"]
\* Lines 740-766: a text block followed by one tool_use block.
GenerateMockResponse(h) ==
    LET mock_action == MockAction(UserContent(h))
    IN SdkMsg("msg_mock",
              <<TextBlock(TRUE, mock_action.text),
                ToolUseBlock("tool_mock", mock_action.name, mock_action.input)>>)
MockHistories ==
    { <<StrMsg("user", "user_s_0", "Take a screenshot")>>,
      <<StrMsg("user", "user_s_0", "click OK, then type hello")>>,
      <<DictMsg("user", "user_s_0", <<TextBlock(FALSE, "write a note")>>)>> }

\* get_next_action, line 419: messages=cleaned_history.
MessagesSent(cleaned) == cleaned

\* get_next_action, lines 494-517: AnthropicError(status_code) is raised
\* inside the try block, caught by `except AnthropicError` and replaced by
\* Exception(error_message).
RaisedToCaller(status_code) ==
    [kind |-> "exception", exc_type |-> "Exception", status_code |-> None,
     response |-> None]
Returned(r) ==
    [kind |-> "response", exc_type |-> "", status_code |-> None, response |-> Some(r)]
NoResult ==
    [kind |-> "none", exc_type |-> "", status_code |-> None, response |-> None]

\* Ages d seconds later.
AgedCalls(s, d) == OlderSeq(s, d, AgeWindow)
AgedCache(m, d) == OlderMap(m, d, AgeTtl)
\* History variables: the attempts and successes younger than the window, and
\* the network successes not older than cache_ttl.
AgedWindow(s, d) ==
    SelectSeq(OlderSeq(s, d, AgeWindow), LAMBDA a : a < rate_limit_window)
AgedNet(m, d) ==
    LET o == OlderMap(m, d, AgeTtl)
    IN Restrict(o, {k \in DOMAIN o : o[k].age <= cache_ttl})
AttemptCap == max_calls_per_minute + 1
NoteAttempt(s) == IF Len(s) < AttemptCap THEN Append(s, 0) ELSE s

IdleCall ==
    [history |-> << >>, cleaned |-> << >>, system_prompt |-> "", attempt |-> 0,
     retry_delay |-> InitialRetryDelay, status_code |-> None,
     failures |-> << >>, sleeps |-> << >>, attempts |-> 0, sent |-> << >>,
     rl_count |-> 0, rl_oldest |-> None, rl_wait |-> 0, rl_slept |-> 0,
     prior |-> None, cached |-> None]

\* d seconds pass for everything that holds a timestamp.
Elapse(d) ==
    /\ api_calls' = AgedCalls(api_calls, d)
    /\ message_hash_cache' = AgedCache(message_hash_cache, d)
    /\ response_cache' = AgedCache(response_cache, d)
    /\ token_count_cache' = AgedCache(token_count_cache, d)
    /\ attempt_times' = AgedWindow(attempt_times, d)
    /\ success_times' = AgedWindow(success_times, d)
    /\ net' = AgedNet(net, d)

(***************************************************************************)
(* AnthropicClient.get_next_action                                         *)
(***************************************************************************)
\* Lines 374-409: validation, cleaning, cache lookup, rate limiting.
GetNextAction_Enter(h) ==
    /\ gw_pc = "idle"
    /\ ~use_mock_api
    /\ LET cleaned == CleanMessageHistory(h)
           conversation_hash == ComputeHashList(cleaned)
           entered ==
               [IdleCall EXCEPT
                   !.history = h, !.system_prompt = current_prompt,
                   !.prior = IF h # << >> /\ conversation_hash \in DOMAIN net
                             THEN Some(net[conversation_hash]) ELSE None,
                   !.cached = IF h # << >>
                                 /\ conversation_hash \in DOMAIN message_hash_cache
                              THEN Some(message_hash_cache[conversation_hash])
                              ELSE None]
           hit ==
               /\ enable_caching
               /\ conversation_hash \in DOMAIN message_hash_cache
               /\ CacheFresh(message_hash_cache[conversation_hash].age)
               /\ message_hash_cache[conversation_hash].v \in DOMAIN response_cache
       IN IF h = << >>
          THEN \* ValueError("Empty run history provided"), re-raised as Exception
               /\ call' = entered
               /\ result' = RaisedToCaller(None)
               /\ gw_pc' = "raised"
               /\ UNCHANGED <<api_calls, message_hash_cache, response_cache,
                              token_count_cache, attempt_times, success_times, net>>
          ELSE IF hit
          THEN /\ call' = [entered EXCEPT !.cleaned = cleaned]
               /\ result' =
                      Returned(response_cache[message_hash_cache[conversation_hash].v].v)
               /\ gw_pc' = "returned"
               /\ UNCHANGED <<api_calls, message_hash_cache, response_cache,
                              token_count_cache, attempt_times, success_times, net>>
          ELSE LET wait_time == RateLimitWait(api_calls)
                   kept == RecentCalls(api_calls)
                   slept == SleepSeconds(wait_time)
               IN /\ api_calls' = AgedCalls(kept, slept)
                  /\ message_hash_cache' = AgedCache(message_hash_cache, slept)
                  /\ response_cache' = AgedCache(response_cache, slept)
                  /\ token_count_cache' = AgedCache(token_count_cache, slept)
                  /\ attempt_times' = AgedWindow(attempt_times, slept)
                  /\ success_times' = AgedWindow(success_times, slept)
                  /\ net' = AgedNet(net, slept)
                  /\ call' = [entered EXCEPT
                                 !.cleaned = cleaned,
                                 !.rl_count = Len(kept),
                                 !.rl_oldest = IF kept = << >> THEN None
                                               ELSE Some(OldestCallAge(kept)),
                                 !.rl_wait = wait_time,
                                 !.rl_slept = slept]
                  /\ gw_pc' = "attempting"
                  /\ UNCHANGED result
    /\ UNCHANGED <<use_mock_api, enable_caching, current_prompt>>

\* Lines 411-494: one pass of the retry loop, with what follows the loop
\* when this pass ends it.
GetNextAction_Attempt(o, j) ==
    /\ gw_pc = "attempting"
    /\ LET conversation_hash == ComputeHashList(call.cleaned)
           made == [call EXCEPT
                       !.attempts = @ + 1,
                       !.sent = MessagesSent(call.cleaned)]
       IN IF o.ok
          THEN LET response == RepairNoToolUse(The(o.response))
                   response_hash == ComputeHashValue(response)
               IN /\ api_calls' = Append(api_calls, 0)
                  /\ IF enable_caching
                     THEN /\ response_cache' =
                                 Put(response_cache, response_hash,
                                     [v |-> response, age |-> 0])
                          /\ message_hash_cache' =
                                 Put(message_hash_cache, conversation_hash,
                                     [v |-> response_hash, age |-> 0])
                     ELSE UNCHANGED <<response_cache, message_hash_cache>>
                  /\ call' = made
                  /\ result' = Returned(response)
                  /\ gw_pc' = "returned"
                  /\ net' = IF enable_caching
                            THEN Put(net, conversation_hash,
                                     [age |-> 0, response |-> response,
                                      system_prompt |-> call.system_prompt])
                            ELSE net
                  /\ attempt_times' = NoteAttempt(attempt_times)
                  /\ success_times' = Append(success_times, 0)
                  /\ UNCHANGED token_count_cache
          ELSE IF o.failure.kind # "Exception" /\ IsRetryable(o.failure)
          THEN LET d == NextRetryDelay(call.retry_delay, j)
                   slept == SleepSeconds(d)
                   failed == [made EXCEPT
                                 !.retry_delay = d,
                                 !.status_code = o.failure.status,
                                 !.failures = Append(@, o.failure),
                                 !.sleeps = Append(@, d),
                                 !.attempt = @ + 1]
               IN /\ call' = failed
                  /\ IF failed.attempt < max_retries
                     THEN gw_pc' = "attempting" /\ UNCHANGED result
                     ELSE gw_pc' = "raised"
                          /\ result' = RaisedToCaller(failed.status_code)
                  /\ api_calls' = AgedCalls(api_calls, slept)
                  /\ message_hash_cache' = AgedCache(message_hash_cache, slept)
                  /\ response_cache' = AgedCache(response_cache, slept)
                  /\ token_count_cache' = AgedCache(token_count_cache, slept)
                  /\ attempt_times' = AgedWindow(NoteAttempt(attempt_times), slept)
                  /\ success_times' = AgedWindow(success_times, slept)
                  /\ net' = AgedNet(net, slept)
          ELSE LET failed == [made EXCEPT
                                 !.status_code =
                                     IF o.failure.kind = "Exception"
                                     THEN @ ELSE o.failure.status,
                                 !.failures = Append(@, o.failure)]
               IN /\ call' = failed
                  /\ gw_pc' = "raised"
                  /\ result' = RaisedToCaller(failed.status_code)
                  /\ attempt_times' = NoteAttempt(attempt_times)
                  /\ UNCHANGED <<api_calls, response_cache, message_hash_cache,
                                 token_count_cache, net, success_times>>
    /\ UNCHANGED <<use_mock_api, enable_caching, current_prompt>>

\* Lines 369-372 and _generate_mock_response: with USE_MOCK_API set the call
\* is answered locally, before any validation, cache or network.
GetNextAction_Mock(h) ==
    /\ gw_pc = "idle"
    /\ use_mock_api
    /\ call' = [IdleCall EXCEPT !.history = h, !.system_prompt = current_prompt]
    /\ IF h = << >>
       THEN \* run_history[-1] raises IndexError, outside the try block
            /\ result' = [RaisedToCaller(None) EXCEPT !.exc_type = "IndexError"]
            /\ gw_pc' = "raised"
       ELSE /\ result' = Returned(GenerateMockResponse(h))
            /\ gw_pc' = "returned"
    /\ UNCHANGED <<use_mock_api, enable_caching, api_calls, message_hash_cache,
                   response_cache, token_count_cache, current_prompt,
                   attempt_times, success_times, net>>

\* The caller takes the response or the exception.
GetNextAction_Return ==
    /\ gw_pc \in {"returned", "raised"}
    /\ gw_pc' = "idle"
    /\ call' = IdleCall
    /\ result' = NoResult
    /\ UNCHANGED <<use_mock_api, enable_caching, api_calls, message_hash_cache, response_cache,
                   token_count_cache, current_prompt, attempt_times,
                   success_times, net>>

\* Mutant of CleanCache: the message hash cache is left as it is.
CleanCache_MappingsKept ==
    /\ gw_pc = "idle"
    /\ token_count_cache' =
           Restrict(token_count_cache,
                    {k \in DOMAIN token_count_cache :
                        ~CacheExpired(token_count_cache[k].age)})
    /\ response_cache' =
           Restrict(response_cache,
                    {k \in DOMAIN response_cache :
                        ~CacheExpired(response_cache[k].age)})
    /\ UNCHANGED <<use_mock_api, enable_caching, api_calls, current_prompt, gw_pc, call,
                   result, attempt_times, success_times, net, message_hash_cache>>
\* AnthropicClient._clean_cache
CleanCache ==
    /\ gw_pc = "idle"
    /\ token_count_cache' =
           Restrict(token_count_cache,
                    {k \in DOMAIN token_count_cache :
                        ~CacheExpired(token_count_cache[k].age)})
    /\ message_hash_cache' =
           Restrict(message_hash_cache,
                    {k \in DOMAIN message_hash_cache :
                        ~CacheExpired(message_hash_cache[k].age)})
    /\ response_cache' =
           Restrict(response_cache,
                    {k \in DOMAIN response_cache :
                        ~CacheExpired(response_cache[k].age)})
    /\ UNCHANGED <<use_mock_api, enable_caching, api_calls, current_prompt, gw_pc, call,
                   result, attempt_times, success_times, net>>

\* PromptManager.save_prompt on the prompt manager the client reads its
\* system prompt from (anthropic.py:408).
SavePrompt(p) ==
    /\ gw_pc \in {"idle", "attempting"}
    /\ p # current_prompt
    /\ current_prompt' = p
    /\ UNCHANGED <<use_mock_api, enable_caching, api_calls, message_hash_cache,
                   response_cache, token_count_cache, gw_pc, call, result,
                   attempt_times, success_times, net>>

\* One second passes.
Tick ==
    /\ gw_pc \in {"idle", "attempting"}
    /\ Elapse(1)
    /\ UNCHANGED <<use_mock_api, enable_caching, current_prompt, gw_pc, call, result>>

GatewayInit ==
    /\ use_mock_api \in BOOLEAN
    /\ enable_caching \in BOOLEAN
    /\ api_calls = << >>
    /\ message_hash_cache = EmptyMap
    /\ response_cache = EmptyMap
    /\ token_count_cache = EmptyMap
    /\ current_prompt = "prompt_1"
    /\ gw_pc = "idle"
    /\ call = IdleCall
    /\ result = NoResult
    /\ attempt_times = << >>
    /\ success_times = << >>
    /\ net = EmptyMap

CleanIdle ==
    /\ run_history = << >>
    /\ cleaned_history = << >>
    /\ clean_pc = "idle"

(***************************************************************************)
(* ComputerControl (src/src/computer.py).                                  *)
(*                                                                         *)
(* Texts are sequences of one-character strings.  Screen positions are     *)
(* kept in units of 1/PixelUnit pixel, which makes the scalings of         *)
(* map_from_ai_space exact for the default geometry.  Every OS input       *)
(* dispatched gives the screen a new content; an image is recorded with    *)
(* whether it shows the screen's present content (current) or an earlier   *)
(* one.  The actions of the model carry no region, element_type,           *)
(* grayscale or bw_mode.  The clock starts at ExecStart.                   *)
(***************************************************************************)
ai_display_width == 1024
ai_display_height == 640
screen_width == 1920
screen_height == 1080
screenshot_cache_ttl == 5
max_cache_size == 10
PixelUnit == 8 * 2
ExecStart == 4
MaxExecTime == 5

UpperLetters == <<"A", "B", "C", "D", "E", "F", "G", "H", "I", "J", "K", "L", "M", "N", "O", "P", "Q", "R", "S", "T", "U", "V", "W", "X", "Y", "Z">>
LowerLetters == <<"a", "b", "c", "d", "e", "f", "g", "h", "i", "j", "k", "l", "m", "n", "o", "p", "q", "r", "s", "t", "u", "v", "w", "x", "y", "z">>
\* str.lower() on one character.
LowerChar(c) ==
    IF \E i \in DOMAIN UpperLetters : UpperLetters[i] = c
    THEN LowerLetters[CHOOSE i \in DOMAIN UpperLetters : UpperLetters[i] = c]
    ELSE c
\* Mutant of LowerText: the text is compared as typed.
LowerText_AsTyped(t) == t
\* text.lower()
LowerText(t) == [i \in DOMAIN t |-> LowerChar(t[i])]
\* pattern in text
Contains(p, t) ==
    \E i \in 0..(Len(t) - Len(p)) : SubSeq(t, i + 1, i + Len(p)) = p

\* _validate_action_safety: dangerous_patterns.
dangerous_patterns ==
    << <<"s", "u", "d", "o", " ">>,
       <<"r", "m", " ", "-", "r", "f">>,
       <<"f", "o", "r", "m", "a", "t">>,
       <<"m", "k", "f", "s">>,
       <<";", "s", "h", "u", "t", "d", "o", "w", "n">>,
       <<";", "r", "e", "b", "o", "o", "t">>,
       <<";", "h", "a", "l", "t">>,
       <<"d", "d", " ", "i", "f", "=">>,
       <<">", " ", "/", "d", "e", "v", "/">>,
       <<">", " ", "/", "e", "t", "c", "/">>,
       <<"c", "h", "m", "o", "d", " ", "7", "7", "7">>,
       <<"c", "h", "o", "w", "n", " ", "r", "o", "o", "t">> >>

\* Mutant of WithinAiBounds: the vertical coordinate is not checked.
WithinAiBounds_XOnly(x, y) == 0 <= x /\ 10 * x <= 11 * ai_display_width
\* _validate_action_safety: 0 <= x <= ai_width * 1.1 and 0 <= y <= ai_height * 1.1,
\* for integer coordinates.
WithinAiBounds(x, y) ==
    /\ 0 <= x /\ 10 * x <= 11 * ai_display_width
    /\ 0 <= y /\ 10 * y <= 11 * ai_display_height

\* An action dictionary; an absent key is None.
Act(t, text, x, y, sb, sa) ==
    [type |-> t, text |-> text, x |-> x, y |-> y,
     skip_before_screenshot |-> sb, skip_after_screenshot |-> sa]
NoAction == Act(None, None, None, None, FALSE, FALSE)

ValidateActionSafety(a) ==
    IF a.type = None THEN FALSE
    ELSE IF The(a.type) = "type"
    THEN /\ a.text # None
         /\ \A i \in DOMAIN dangerous_patterns :
                ~Contains(dangerous_patterns[i], LowerText(The(a.text)))
    ELSE IF The(a.type) \in {"mouse_move", "left_click_drag"}
    THEN /\ a.x # None
         /\ a.y # None
         /\ WithinAiBounds(The(a.x), The(a.y))
    ELSE TRUE

\* map_from_ai_space: AI pixels to screen position (1/PixelUnit pixel).
MapFromAiSpace(x, y) ==
    << (x * screen_width * PixelUnit) \div ai_display_width,
       (y * screen_height * PixelUnit) \div ai_display_height >>
\* map_to_ai_space: screen position (1/PixelUnit pixel) to AI space
\* (1/PixelUnit AI pixel).
MapToAiSpace(p) ==
    << (p[1] * ai_display_width) \div screen_width,
       (p[2] * ai_display_height) \div screen_height >>

\* What perform_action hands back.
ErrorImage == [kind |-> "error_image", current |-> FALSE, point |-> <<0, 0>>]
Screenshot(c) == [kind |-> "screenshot", current |-> c, point |-> <<0, 0>>]
NoneResult == [kind |-> "none", current |-> FALSE, point |-> <<0, 0>>]
PointResult(p) == [kind |-> "point", current |-> FALSE, point |-> p]
ActionFailed == [kind |-> "raised", current |-> FALSE, point |-> <<0, 0>>]
NoExecResult == [kind |-> "idle", current |-> FALSE, point |-> <<0, 0>>]

\* The screen changes: every image taken so far shows an earlier content.
Outdated(img) == [img EXCEPT !.current = FALSE]
OutdatedCache(cache) ==
    [k \in DOMAIN cache |-> [cache[k] EXCEPT !.data = Outdated(@)]]

\* _clean_screenshot_cache
CleanScreenshotCache(cache, now) ==
    LET live == {k \in DOMAIN cache : ~(now - cache[k].ts > screenshot_cache_ttl)}
        kept == IF Cardinality(live) > max_cache_size
                THEN CHOOSE K \in SUBSET live :
                         /\ Cardinality(K) = max_cache_size
                         /\ \A k \in K, o \in live \ K : cache[o].ts <= cache[k].ts
                ELSE live
    IN Restrict(cache, kept)

\* take_screenshot with region None, grayscale and bw_mode False: the image
\* returned and the cache left behind.  ok: the capture succeeds.
CacheKey(now) == <<"None", FALSE, FALSE, "None", now \div screenshot_cache_ttl>>
TakeScreenshot(cache, now, ok) ==
    LET cache_key == CacheKey(now)
    IN IF /\ cache_key \in DOMAIN cache
          /\ now - cache[cache_key].ts < screenshot_cache_ttl
       THEN [data |-> cache[cache_key].data, cache |-> cache]
       ELSE LET cleaned == CleanScreenshotCache(cache, now)
            IN IF ok
               THEN [data |-> Screenshot(TRUE),
                     cache |-> Put(cleaned, cache_key,
                                   [data |-> Screenshot(TRUE), ts |-> now])]
               ELSE [data |-> ErrorImage, cache |-> cleaned]

\* One call of the pyautogui input layer.
OsCall(fn, at, text) == [fn |-> fn, at |-> at, text |-> text]
Dispatched(calls, ptr, lcp, outcome) ==
    [calls |-> calls, pointer |-> ptr, last_click |-> lcp, outcome |-> outcome]

\* Mutant of PointerDrifted: a recorded position is clicked again wherever
\* the pointer is.
PointerDrifted_WheneverRecorded(ptr, lcp) == lcp # None
\* Lines 290-292: a last click position is recorded and pyautogui.position()
\* differs from it.
PointerDrifted(ptr, lcp) == lcp # None /\ The(lcp) # ptr

\* perform_action, the if/elif chain on action_type.  outcome: "done" (go on
\* to the after-screenshot), "screenshot", "cursor_position" (early
\* returns) or "raise".
Dispatch(a, ptr, lcp) ==
    LET t == The(a.type)
        target == MapFromAiSpace(The(a.x), The(a.y))
        reclick == PointerDrifted(ptr, lcp)
    IN CASE t = "mouse_move" ->
              Dispatched(<<OsCall("moveTo", Some(target), << >>)>>, target, lcp, "done")
         [] t = "left_click" ->
              Dispatched(<<OsCall("click", None, << >>)>>, ptr, Some(ptr), "done")
         [] t = "right_click" ->
              Dispatched(<<OsCall("rightClick", None, << >>)>>, ptr, lcp, "done")
         [] t = "middle_click" ->
              Dispatched(<<OsCall("middleClick", None, << >>)>>, ptr, lcp, "done")
         [] t = "double_click" ->
              Dispatched(<<OsCall("doubleClick", None, << >>)>>, ptr, Some(ptr), "done")
         [] t = "left_click_drag" ->
              Dispatched(<<OsCall("dragTo", Some(target), << >>)>>, target, lcp, "done")
         [] t = "type" ->
              Dispatched((IF reclick THEN <<OsCall("click", lcp, << >>)>> ELSE << >>)
                             \o <<OsCall("write", None, The(a.text))>>,
                         IF reclick THEN The(lcp) ELSE ptr, lcp, "done")
         [] t = "key" ->
              IF a.text = None
              THEN Dispatched(<< >>, ptr, lcp, "raise")
              ELSE Dispatched(<<OsCall("press", None, The(a.text))>>, ptr, lcp, "done")
         [] t = "screenshot" -> Dispatched(<< >>, ptr, lcp, "screenshot")
         [] t = "cursor_position" -> Dispatched(<< >>, ptr, lcp, "cursor_position")
         [] OTHER -> Dispatched(<< >>, ptr, lcp, "raise")

Text_sudo_ls == <<"s", "u", "d", "o", " ", "l", "s">>
Text_SuDo_ls == <<"S", "u", "D", "o", " ", "l", "s">>
Text_rm_rf == <<"r", "m", " ", "-", "r", "f", " ", "/">>
Text_dd_if == <<"d", "d", " ", "i", "f", "=", "a">>
Text_chmod_777 == <<"c", "h", "m", "o", "d", " ", "7", "7", "7", " ", "a">>
Text_ls == <<"l", "s">>
Text_sudo == <<"s", "u", "d", "o">>
Text_enter == <<"e", "n", "t", "e", "r">>
Texts == {Text_sudo_ls, Text_SuDo_ls, Text_rm_rf, Text_dd_if, Text_chmod_777,
          Text_ls, Text_sudo, Text_enter}
Coordinates ==
    { <<Some(0), Some(0)>>, <<Some(1126), Some(704)>>, <<Some(1127), Some(704)>>,
      <<Some(1126), Some(705)>>, <<Some(-1), Some(0)>>, <<Some(0), Some(-1)>>,
      <<None, Some(0)>>, <<Some(0), None>> }
DragCoordinates ==
    { <<Some(1126), Some(704)>>, <<Some(1127), Some(704)>>, <<Some(1126), Some(705)>> }
ExecActions ==
    {Act(Some("mouse_move"), None, c[1], c[2], FALSE, FALSE) : c \in Coordinates}
    \cup {Act(Some("left_click_drag"), None, c[1], c[2], FALSE, FALSE) :
              c \in DragCoordinates}
    \cup {Act(Some("type"), text, None, None, FALSE, FALSE) :
              text \in {None} \cup {Some(v) : v \in Texts}}
    \cup {Act(Some("key"), text, None, None, FALSE, FALSE) :
              text \in {None, Some(Text_sudo_ls), Some(Text_enter)}}
    \cup {Act(t, None, None, None, FALSE, FALSE) :
              t \in {None} \cup {Some(v) : v \in {"left_click", "right_click",
                                                 "middle_click", "double_click",
                                                 "screenshot", "cursor_position",
                                                 "scroll"}}}
    \cup {Act(Some("left_click"), None, None, None, sb, sa) : sb, sa \in BOOLEAN}

\* How one perform_action call goes: <<e, shot_ok, os_ok>>.  e: whole
\* seconds the clock advances while the call runs; shot_ok: the screen
\* captures succeed; os_ok: the OS input calls succeed (otherwise the first
\* one raises).
ExecRuns == { <<0, TRUE, TRUE>>, <<1, TRUE, TRUE>>, <<0, FALSE, TRUE>>, <<0, TRUE, FALSE>> }

\* perform_action(a)
PerformAction(a, e, shot_ok, os_ok) ==
    /\ exec_now + e <= MaxExecTime
    /\ action' = a
    /\ IF ~ValidateActionSafety(a)
       THEN /\ os_calls' = << >>
            /\ exec_result' = ErrorImage
            /\ UNCHANGED <<exec_now, screenshot_cache, pointer, last_click_position>>
       ELSE LET before == IF a.skip_before_screenshot
                          THEN [data |-> NoneResult, cache |-> screenshot_cache]
                          ELSE TakeScreenshot(screenshot_cache, exec_now, shot_ok)
                tried == Dispatch(a, pointer, last_click_position)
                done == IF os_ok \/ tried.calls = << >>
                        THEN tried
                        ELSE Dispatched(<< >>, pointer, last_click_position, "raise")
                changed == done.calls # << >>
                seen == IF changed
                        THEN [data |-> Outdated(before.data),
                              cache |-> OutdatedCache(before.cache)]
                        ELSE before
                now == exec_now + e
                after == TakeScreenshot(seen.cache, now, shot_ok)
                captured == done.outcome = "screenshot"
                            \/ (done.outcome = "done" /\ ~a.skip_after_screenshot)
            IN /\ os_calls' = done.calls
               /\ pointer' = done.pointer
               /\ last_click_position' = done.last_click
               /\ exec_now' = now
               /\ screenshot_cache' = IF captured THEN after.cache ELSE seen.cache
               /\ exec_result' =
                      CASE done.outcome = "raise" -> ActionFailed
                        [] done.outcome = "cursor_position" ->
                               PointResult(MapToAiSpace(pointer))
                        [] captured -> after.data
                        [] OTHER -> seen.data

\* cleanup()
Cleanup ==
    /\ screenshot_cache' = EmptyMap
    /\ UNCHANGED <<exec_now, pointer, last_click_position,
                   action, os_calls, exec_result>>

\* One second passes between two calls.
ExecTick ==
    /\ exec_now < MaxExecTime
    /\ exec_now' = exec_now + 1
    /\ UNCHANGED <<screenshot_cache, pointer, last_click_position,
                   action, os_calls, exec_result>>

ExecIdle ==
    /\ exec_now = ExecStart
    /\ screenshot_cache = EmptyMap
    /\ pointer = <<(screen_width \div 2) * PixelUnit, (screen_height \div 2) * PixelUnit>>
    /\ last_click_position = None
    /\ action = NoAction
    /\ os_calls = << >>
    /\ exec_result = NoExecResult

(***************************************************************************)
(* ComputerControl.map_from_ai_space and map_to_ai_space for any geometry, *)
(* in exact arithmetic: a coordinate is a fraction [num, den] in lowest     *)
(* terms with den > 0.  `x * a / b` multiplies first and divides second.    *)
(***************************************************************************)
RECURSIVE Gcd(_, _)
Gcd(a, b) == IF b = 0 THEN a ELSE Gcd(b, a % b)
Abs(n) == IF n < 0 THEN -n ELSE n
Fraction(n, d) ==
    LET g == Gcd(Abs(n), d) IN [num |-> n \div g, den |-> d \div g]
Whole(n) == Fraction(n, 1)
\* f * a / b for integers a and b > 0
Scale(f, a, b) == Fraction(f.num * a, f.den * b)
\* int(f): what a map that kept whole pixels would return
Truncated(f) == Whole(IF f.num >= 0 THEN f.num \div f.den
                      ELSE -((-f.num) \div f.den))

Geometry(sw, sh, aw, ah) ==
    [screen_width |-> sw, screen_height |-> sh, ai_width |-> aw, ai_height |-> ah]
\* map_from_ai_space(x, y)
MapFromAiSpaceIn(g, p) ==
    << Scale(p[1], g.screen_width, g.ai_width),
       Scale(p[2], g.screen_height, g.ai_height) >>
\* Mutant of MapToAiSpaceIn: the result is cut to whole pixels.
MapToAiSpaceIn_WholePixels(g, p) ==
    << Truncated(Scale(p[1], g.ai_width, g.screen_width)),
       Truncated(Scale(p[2], g.ai_height, g.screen_height)) >>
\* map_to_ai_space(x, y)
MapToAiSpaceIn(g, p) ==
    << Scale(p[1], g.ai_width, g.screen_width),
       Scale(p[2], g.ai_height, g.screen_height) >>

\* The geometries and the points the maps are applied to.
ScreenSizes == { <<1920, 1080>>, <<1366, 768>>, <<3, 7>> }
AiSizes == { <<1024, 640>>, <<1280, 800>>, <<5, 2>> }
Geometries ==
    {Geometry(s[1], s[2], a[1], a[2]) : s \in ScreenSizes, a \in AiSizes}
MapPoints == {<<x, y>> : x \in {-3, 0, 1, 512, 1023}, y \in {0, 1, 320, 639}}

NoPoint == <<Whole(0), Whole(0)>>
NoMapping ==
    [done |-> FALSE, geometry |-> Geometry(1, 1, 1, 1), point |-> <<0, 0>>,
     from_ai |-> NoPoint, to_ai |-> NoPoint,
     to_from |-> NoPoint, from_to |-> NoPoint]
\* Both maps and both round trips for one point.
MapPoint(g, p) ==
    /\ ~map_call.done
    /\ LET q == <<Whole(p[1]), Whole(p[2])>>
       IN map_call' =
              [done |-> TRUE, geometry |-> g, point |-> p,
               from_ai |-> MapFromAiSpaceIn(g, q),
               to_ai |-> MapToAiSpaceIn(g, q),
               to_from |-> MapToAiSpaceIn(g, MapFromAiSpaceIn(g, q)),
               from_to |-> MapFromAiSpaceIn(g, MapToAiSpaceIn(g, q))]
    /\ UNCHANGED region_call

(***************************************************************************)
(* ComputerControl.get_region_of_interest                                  *)
(***************************************************************************)
\* Lines 636-659: the width and height preset of an element type.
RegionPreset(element_type) ==
    CASE element_type = "text_field" -> <<500, 200>>
      [] element_type = "button" -> <<200, 100>>
      [] element_type = "menu" -> <<300, 500>>
      [] element_type = "dialog" -> <<600, 400>>
      [] element_type = "browser_address" -> <<400, 150>>
      [] OTHER -> <<400, 300>>

Lesser(a, b) == IF a <= b THEN a ELSE b
Greater(a, b) == IF a >= b THEN a ELSE b

\* get_region_of_interest on a screen of the given size with the pointer at
\* cursor: <<x, y, region_width, region_height>>.
GetRegionOfInterest(size, element_type, cursor) ==
    LET w == RegionPreset(element_type)[1]
        h == RegionPreset(element_type)[2]
        \* lines 656-659: the address bar is looked for at the top
        cy == IF element_type = "browser_address" THEN 50 ELSE cursor[2]
        \* lines 662-663
        x0 == Greater(0, cursor[1] - w \div 2)
        y0 == Greater(0, cy - h \div 2)
        \* lines 666-667
        x == Lesser(x0, size[1] - w)
        y == Lesser(y0, size[2] - h)
    IN \* lines 670-675
       << x, y,
          IF x + w > size[1] THEN size[1] - x ELSE w,
          IF y + h > size[2] THEN size[2] - y ELSE h >>

\* pyautogui.size() of the displays considered, the element types (None and
\* an unknown name take the default preset) and the pointer positions: the
\* corners, the centre, and a position on a second monitor left of or
\* right of the primary one.
RegionScreens == { <<1920, 1080>>, <<1366, 768>>, <<1024, 600>>, <<800, 480>> }
ElementTypes ==
    {"none", "text_field", "button", "menu", "dialog", "browser_address", "icon"}
CursorsOn(size) ==
    {<<x, y>> : x \in {-100, 0, size[1] \div 2, size[1] - 1, size[1] + 50},
                y \in {0, size[2] \div 2, size[2] - 1}}

NoRegion ==
    [done |-> FALSE, size |-> <<1, 1>>, element_type |-> "none",
     cursor |-> <<0, 0>>, region |-> <<0, 0, 0, 0>>]
RegionOfInterest(size, element_type, cursor) ==
    /\ ~region_call.done
    /\ region_call' =
           [done |-> TRUE, size |-> size, element_type |-> element_type,
            cursor |-> cursor,
            region |-> GetRegionOfInterest(size, element_type, cursor)]
    /\ UNCHANGED map_call

(***************************************************************************)
(* AnthropicClient.count_tokens                                            *)
(*                                                                         *)
(* A text is described by its numbers of ASCII and non-ASCII characters    *)
(* and by whether str.encode('utf-8') accepts it: a str holding a lone     *)
(* surrogate (json.loads produces one from "\ud83d") is not encodable.     *)
(***************************************************************************)
TokenTexts ==
    { [chars |-> "open the browser", ascii |-> 16, non_ascii |-> 0,
       encodable |-> TRUE],
      [chars |-> "caf(e acute) (hot beverage sign)", ascii |-> 4, non_ascii |-> 2,
       encodable |-> TRUE],
      [chars |-> "ok (lone high surrogate)", ascii |-> 3, non_ascii |-> 1,
       encodable |-> FALSE] }
\* What the remote counting endpoint and tiktoken give: a count, or nothing
\* (the call raised, or tiktoken is not installed).
CountOutcomes == [remote : {None, Some(4)}, tiktoken : {None, Some(6)}]

\* Lines 636-654: int(ascii / 4.0 + non_ascii / 1.5 + 5).
CharEstimate(t) == (3 * t.ascii + 8 * t.non_ascii + 60) \div 12

NoCount ==
    [text |-> None, cached |-> None, remote_called |-> FALSE,
     remote_failed |-> FALSE, kind |-> "none", value |-> None, exc_type |-> ""]
TokensIdle == count_call = NoCount /\ map_call = NoMapping /\ region_call = NoRegion

\* Lines 530-535: the cached count of the text, whatever its age.
CachedCount(cache, t) ==
    IF enable_caching /\ ComputeHashValue(t.chars) \in DOMAIN cache
    THEN Some(cache[ComputeHashValue(t.chars)].v)
    ELSE None

\* count_tokens(t) on a token cache and a list of recorded calls, with the
\* outcome o of the remote endpoint and of tiktoken: the cache and the list
\* afterwards, the seconds slept by the rate limiter, and the record of the
\* call.
CountTokensOn(cache, calls, t, o) ==
    LET text_hash == ComputeHashValue(t.chars)
        started == [NoCount EXCEPT !.text = Some(t)]
        kept == RecentCalls(calls)
        slept == SleepSeconds(RateLimitWait(calls))
        stored(n) ==
            IF enable_caching
            THEN Put(AgedCache(cache, slept), text_hash, [v |-> n, age |-> 0])
            ELSE AgedCache(cache, slept)
    IN IF enable_caching /\ ~t.encodable
       THEN \* line 531: _compute_hash raises UnicodeEncodeError (line 330)
            [cache |-> cache, calls |-> calls, slept |-> 0,
             call |-> [started EXCEPT !.kind = "raised",
                                      !.exc_type = "UnicodeEncodeError"]]
       ELSE IF CachedCount(cache, t) # None
       THEN [cache |-> cache, calls |-> calls, slept |-> 0,
             call |-> [started EXCEPT !.cached = CachedCount(cache, t),
                                      !.kind = "returned",
                                      !.value = CachedCount(cache, t)]]
       ELSE IF o.remote # None
       THEN \* line 538 and the remote call, lines 540-590
            [cache |-> stored(The(o.remote)),
             calls |-> Append(AgedCalls(kept, slept), 0),
             slept |-> slept,
             call |-> [started EXCEPT !.remote_called = TRUE,
                                      !.kind = "returned",
                                      !.value = o.remote]]
       ELSE \* lines 592-654: tiktoken, then the character estimate
            [cache |-> IF o.tiktoken # None THEN stored(The(o.tiktoken))
                       ELSE AgedCache(cache, slept),
             calls |-> AgedCalls(kept, slept),
             slept |-> slept,
             call |-> [started EXCEPT
                          !.remote_called = TRUE,
                          !.remote_failed = TRUE,
                          !.kind = "returned",
                          !.value = IF o.tiktoken # None THEN o.tiktoken
                                    ELSE Some(CharEstimate(t))]]

CountTokens(t, o) ==
    /\ gw_pc = "idle"
    /\ LET r == CountTokensOn(token_count_cache, api_calls, t, o)
       IN /\ token_count_cache' = r.cache
          /\ api_calls' = r.calls
          /\ count_call' = r.call
          /\ message_hash_cache' = AgedCache(message_hash_cache, r.slept)
          /\ response_cache' = AgedCache(response_cache, r.slept)
          /\ attempt_times' = AgedWindow(attempt_times, r.slept)
          /\ success_times' = AgedWindow(success_times, r.slept)
          /\ net' = AgedNet(net, r.slept)
    /\ UNCHANGED <<use_mock_api, enable_caching, current_prompt, gw_pc, call, result>>

(***************************************************************************)
(* Store (src/src/store.py) and the threads of MainWindow                  *)
(* (src/src/window.py).                                                    *)
(*                                                                         *)
(* Every run request of the window starts an AgentThread that executes     *)
(* Store.run_agent; the requests and stop_run execute on the UI thread.    *)
(* A thread takes one step for the code between two points where it can    *)
(* be waiting: before run_agent's first line, at the loop test, inside     *)
(* get_next_action and inside perform_action.  get_next_action is taken    *)
(* by its contract: it returns a message or raises Exception.              *)
(***************************************************************************)
\* The AgentThread objects the window creates: the thread of the first run
\* request and the thread of one more.
Threads == {"t1", "t2"}
MaxHistory == 3

\* run_agent, lines 356-360: the user message that reports a failed action.
UserId(n) ==
    CASE n = 0 -> "user_s_0" [] n = 1 -> "user_s_1" [] n = 2 -> "user_s_2"
      [] n = 3 -> "user_s_3" [] n = 4 -> "user_s_4" [] n = 5 -> "user_s_5"
      [] n = 6 -> "user_s_6" [] n = 7 -> "user_s_7" [] n = 8 -> "user_s_8"
      [] n = 9 -> "user_s_9" [] n = 10 -> "user_s_10" [] n = 11 -> "user_s_11"
      [] n = 12 -> "user_s_12" [] n = 13 -> "user_s_13"
      [] n = 14 -> "user_s_14" [] OTHER -> "user_s_n"
TextMessage(n, t) == DictMsg("user", UserId(n), <<TextBlock(FALSE, t)>>)
ActionFailedText(res) ==
    IF res.kind = "raised" THEN "Action failed: (the exception of perform_action)"
    ELSE "Action failed: name 'region' is not defined"
StopNotice == "Agent run stopped by user."

\* extract_action
Decoded(t, message, success, act) ==
    [type |-> t, message |-> message, success |-> success, act |-> act]
DecodeError(message) == Decoded("error", message, FALSE, NoAction)
\* Mutant of ExtractAction: an action type outside the lists is passed on.
ExtractAction_AnyType(message) ==
    LET uses == SelectSeq(message.content, LAMBDA b : b.obj /\ b.type = "tool_use")
        input_data == uses[1].input
        action_type == IF input_data.action_type # None
                       THEN input_data.action_type ELSE input_data.action
    IN IF uses[1].name = "finish_run" THEN Decoded("finish", "", TRUE, NoAction)
       ELSE IF uses[1].name # "computer" \/ action_type = None
       THEN DecodeError("not decoded")
       ELSE Decoded("action", "",  TRUE,
                    Act(action_type, input_data.text, None, None, FALSE, FALSE))
\* extract_action, lines 456-463: the finish_run tool.
\* Mutant of DecodeFinish: a finish_run that reports failure is decoded as
\* an error.
DecodeFinish_FailureIsError(input_data) ==
    IF input_data.success = Some(FALSE)
    THEN DecodeError("Task completed with error")
    ELSE Decoded("finish", "", TRUE, NoAction)
DecodeFinish(input_data) ==
    Decoded("finish", "",
            IF input_data.success = None THEN TRUE ELSE The(input_data.success),
            NoAction)
ExtractAction(message) ==
    LET uses == SelectSeq(message.content, LAMBDA b : b.obj /\ b.type = "tool_use")
    IN IF ~message.sdk THEN DecodeError("Unexpected message type")
       ELSE IF uses = << >> THEN DecodeError("No tool use found in message")
       ELSE
       LET tool_use == uses[1]
           input_data == tool_use.input
           action_type == IF input_data.action_type # None
                          THEN input_data.action_type ELSE input_data.action
           t == The(action_type)
           coordinate_first == IF input_data.coordinate # None
                               THEN input_data.coordinate ELSE input_data.xy
           xy_first == IF input_data.xy # None
                       THEN input_data.xy ELSE input_data.coordinate
           \* lines 494-498: bool() of the two flags, absent when not given
           skip_before == input_data.skip_before_screenshot = Some(TRUE)
           skip_after == input_data.skip_after_screenshot = Some(TRUE)
           at(c) == Act(action_type, None,
                        IF c = None THEN None ELSE Some(The(c)[1]),
                        IF c = None THEN None ELSE Some(The(c)[2]),
                        skip_before, skip_after)
       IN IF tool_use.name = "finish_run"
          THEN DecodeFinish(input_data)
          ELSE IF tool_use.name # "computer"
          THEN DecodeError("Unexpected tool")
          ELSE IF action_type = None
          THEN DecodeError("Action type not found in input data")
          ELSE IF t \in {"mouse_move", "left_click_drag"}
          THEN IF coordinate_first = None
               THEN DecodeError("Invalid coordinate for mouse action")
               ELSE Decoded("action", "", TRUE, at(coordinate_first))
          ELSE IF t \in {"left_click", "right_click", "middle_click",
                         "double_click", "mouse_click"}
          THEN Decoded("action", "", TRUE, at(xy_first))
          ELSE IF t \in {"screenshot", "cursor_position"}
          THEN Decoded("action", "", TRUE, at(None))
          ELSE IF t \in {"type", "key", "keyboard_type"}
          THEN IF input_data.text = None
               THEN DecodeError("Missing text for keyboard action")
               ELSE Decoded("action", "", TRUE,
                            Act(action_type, input_data.text, None, None,
                                skip_before, skip_after))
          ELSE DecodeError("Unsupported action")

\* run_agent, lines 284-298, with the default 'balanced' optimization.
screenshot_optimization == "balanced"
OptimizedAction(a) ==
    IF screenshot_optimization = "aggressive"
    THEN IF The(a.type) \in {"mouse_move", "cursor_position"}
         THEN [a EXCEPT !.skip_before_screenshot = TRUE,
                        !.skip_after_screenshot = TRUE]
         ELSE a
    ELSE IF screenshot_optimization = "balanced"
    THEN IF The(a.type) \in {"mouse_move", "cursor_position", "left_click",
                             "right_click"}
         THEN [a EXCEPT !.skip_before_screenshot = TRUE]
         ELSE a
    ELSE a

\* run_agent, lines 301-361: what the loop does with the outcome of
\* perform_action.  A truthy result reaches `if region:` (line 322), a name
\* that is bound nowhere: NameError, handled like an exception of
\* perform_action by the handler of line 351.  None adds nothing.
\* Mutant of AfterAction: an error image ends the run.
AfterAction_ErrorImageAborts(h, res, run, err) ==
    IF res.kind = "error_image"
    THEN [history |-> h, running |-> FALSE, error |-> Some("unsafe action")]
    ELSE [history |-> Append(h, TextMessage(Len(h), ActionFailedText(res))),
          running |-> run, error |-> err]
\* Mutant of AfterAction: an exception of perform_action is only logged.
AfterAction_NothingAppended(h, res, run, err) ==
    [history |-> h, running |-> run, error |-> err]
AfterAction(h, res, run, err) ==
    IF res.kind = "none"
    THEN [history |-> h, running |-> run, error |-> err]
    ELSE [history |-> Append(h, TextMessage(Len(h), ActionFailedText(res))),
          running |-> run, error |-> err]

\* _message_to_string for the dict messages of a history, as a text of
\* count_tokens.
\* len() of the texts of the dict messages; all of them are ASCII.
TextLength(chars) ==
    CASE chars = "open the browser" -> 16
      [] chars = "Agent run stopped by user." -> 26
      [] chars = "Action failed: name 'region' is not defined" -> 43
      [] chars = "Action failed: (the exception of perform_action)" -> 48
MessageToString(m) ==
    LET chars == IF m.list THEN m.content[1].text ELSE m.text
    IN [chars |-> chars, ascii |-> TextLength(chars), non_ascii |-> 0,
        encodable |-> TRUE]
\* _save_history_to_disk.  How the disk takes the two writes:
\*   "ok"          both files are written
\*   "open_fails"  open(history_file, 'wb') raises: nothing is written
\*   "dump_fails"  pickle.dump raises after the file was truncated
\*   "index_fails" the history file is written, open(history_index_file) raises
\* The index (self.history_index and its file) is written here and read
\* nowhere in the program; the model keeps the history file only.
DiskOutcomes == {"ok", "open_fails", "dump_fails", "index_fails"}
DiskFailures == DiskOutcomes \ {"ok"}
\* Mutant of SaveRaises: the index is written outside the try block.
SaveRaises_IndexWriteUnguarded(d) == d = "index_fails"
\* Lines 76 and 114-115: every exception of the body is logged.
SaveRaises(d) == FALSE
\* Lines 78-89: count_tokens for every dict message.  While the run goes on
\* the remote counting call fails and tiktoken counts.
RunCountOutcome == [remote |-> None, tiktoken |-> Some(6)]
SaveHistoryToDisk(h, cache, calls, file, d) ==
    LET F[i \in 0..Len(h)] ==
            IF i = 0 THEN [cache |-> cache, calls |-> calls]
            ELSE LET before == F[i - 1]
                     r == CountTokensOn(before.cache, before.calls,
                                        MessageToString(h[i]), RunCountOutcome)
                 IN IF h[i].sdk THEN before
                    ELSE [cache |-> r.cache, calls |-> r.calls]
        counted == F[Len(h)]
    IN [cache |-> counted.cache, calls |-> counted.calls,
        file |-> CASE d = "open_fails" -> file
                   [] d = "dump_fails" -> None
                   [] OTHER -> Some(h),
        raised |-> SaveRaises(d)]
NoSave == [outcome |-> "none", raised |-> FALSE]
\* The call of _save_history_to_disk inside a handler.
SaveHistory(h, d) ==
    LET saved == SaveHistoryToDisk(h, token_count_cache, api_calls, history_file, d)
    IN /\ token_count_cache' = saved.cache
       /\ api_calls' = saved.calls
       /\ history_file' = saved.file
       /\ save_call' = [outcome |-> d, raised |-> saved.raised]
NotSaved ==
    UNCHANGED <<token_count_cache, api_calls, history_file, save_call>>

\* retrieve_message_by_id: a BetaMessage is handed back as a dict of its
\* role, content and id.
AsDict(m) == [m EXCEPT !.sdk = FALSE]
FirstWithId(h, id) ==
    LET at == {i \in DOMAIN h : h[i].id = id}
    IN IF at = {} THEN None ELSE Some(AsDict(h[Min(at)]))
\* Mutant of RetrieveMessageById: the snapshot is searched first.
RetrieveMessageById_DiskFirst(h, file, id, read_ok) ==
    IF read_ok /\ file # None /\ FirstWithId(The(file), id) # None
    THEN FirstWithId(The(file), id)
    ELSE FirstWithId(h, id)
\* read_ok: open() and pickle.load succeed on a file that is loadable.
RetrieveMessageById(h, file, id, read_ok) ==
    IF FirstWithId(h, id) # None THEN FirstWithId(h, id)
    ELSE IF read_ok /\ file # None THEN FirstWithId(The(file), id)
    ELSE None
MessageIds == {"user_s_0", "user_s_1", "user_s_2", "msg_r", "msg_0"}
NoRetrieval == [id |-> "", read_ok |-> FALSE, kind |-> "none", message |-> None]
Retrieve(id, read_ok) ==
    /\ retrieve_call' =
           [id |-> id, read_ok |-> read_ok, kind |-> "returned",
            message |-> RetrieveMessageById(run_history, history_file, id, read_ok)]
    /\ UNCHANGED <<gvars, cvars, evars, tvars, mvars, svars, history_file, save_call>>

\* What get_next_action hands to the loop.
ComputerUse(i, input) == SdkMsg("msg_r", <<ToolUseBlock(i, "computer", input)>>)
RunResponses ==
    { ComputerUse("t_click", [NoInput EXCEPT !.action = Some("left_click")]),
      ComputerUse("t_rm", [NoInput EXCEPT !.action = Some("type"),
                                          !.text = Some(Text_rm_rf)]),
      ComputerUse("t_mock", [NoInput EXCEPT !.action_type = Some("mouse_click"),
                                            !.xy = Some(<<500, 400>>)]),
      SdkMsg("msg_r", <<ToolUseBlock("t_fin", "finish_run",
                                     [NoInput EXCEPT !.success = Some(TRUE)])>>),
      RepairNoToolUse(SdkMsg("msg_r", <<TextBlock(TRUE, "which browser?")>>)),
      SdkMsg("msg_r", <<ToolUseBlock("t_bash", "bash", NoInput)>>),
      ComputerUse("t_none", NoInput),
      ComputerUse("t_scroll", [NoInput EXCEPT !.action = Some("scroll")]),
      ComputerUse("t_type", [NoInput EXCEPT !.action = Some("type")]),
      ComputerUse("t_move", [NoInput EXCEPT !.action = Some("mouse_move")]) }
\* How a request ends: a response, or the gateway gives up on an API error
\* with the status given (None: an error without a status).
RunOutcomes ==
    [ok : {TRUE}, response : {Some(r) : r \in RunResponses}, status : {None}]
    \cup [ok : {FALSE}, response : {None}, status : {None, Some(429)}]
\* run_agent, line 223.
run_max_retries == 3
\* str(e) of the exception get_next_action raises: the text of the API error
\* it gave up on, which names the status.
ErrorText(status) ==
    IF status = Some(429) THEN "Anthropic API Error: API error: 429"
    ELSE "Anthropic API Error: API error: Unexpected error"
\* How perform_action goes: <<shot_ok, os_ok>>.  The screen capture succeeds
\* (its failures are explored under SpecExec); the OS input may fail.
ActRuns == { <<TRUE, TRUE>>, <<TRUE, FALSE>> }

Alive(t) == loop_pc[t] \in {"start", "head", "request", "acting"}
GatewayRest ==
    <<use_mock_api, enable_caching, message_hash_cache, response_cache,
      current_prompt, gw_pc, call, result, attempt_times, success_times, net>>

StoreIdle ==
    /\ running = FALSE
    /\ error = None
    /\ loop_pc = [t \in Threads |-> "none"]
    /\ loop_action = [t \in Threads |-> NoAction]
    /\ run_button = TRUE
    /\ stopped = [t \in Threads |-> FALSE]
    /\ retry_count = [t \in Threads |-> 0]
    /\ stop_message_id = None
    /\ history_file = None
    /\ save_call = NoSave
    /\ retrieve_call = NoRetrieval

\* MainWindow.run_agent, reached from the run button, the Ctrl+Return
\* shortcut, Ctrl+Enter in the input area and the voice input.
RunRequest(src) ==
    /\ src = "button" => run_button
    /\ \E t \in Threads : loop_pc[t] = "none"
    /\ LET t == IF loop_pc["t1"] = "none" THEN "t1" ELSE "t2"
           \* Store.set_instructions: count_tokens(instructions)
           r == CountTokensOn(token_count_cache, api_calls,
                              MessageToString(Instruction), RunCountOutcome)
       IN /\ token_count_cache' = r.cache
          /\ api_calls' = r.calls
          /\ run_button' = FALSE
          /\ loop_pc' = [loop_pc EXCEPT ![t] = "start"]
          /\ stopped' = [stopped EXCEPT ![t] = FALSE]
    /\ UNCHANGED <<GatewayRest, cvars, evars, tvars, mvars, stop_message_id, running, error, loop_action,
                   retry_count, dvars>>

\* MainWindow.stop_agent (stop button, Ctrl+C) and quit_application:
\* Store.stop_run on the UI thread.
StopRun(d, max) ==
    /\ Len(run_history) < max
    /\ running' = FALSE
    /\ Cleanup
    /\ LET h == Append(run_history, TextMessage(Len(run_history), StopNotice))
       IN /\ run_history' = h
          /\ SaveHistory(h, d)
    /\ stopped' = [t \in Threads |-> stopped[t] \/ Alive(t)]
    /\ UNCHANGED <<GatewayRest, cleaned_history, clean_pc, tvars, mvars, stop_message_id, error, loop_pc,
                   loop_action, run_button, retry_count, retrieve_call>>

\* stop_run as the two steps a thread of run_agent can come between: the
\* UI thread and the AgentThread share self.run_history without a lock, and
\* stop_run reads len(self.run_history) on line 395 and appends on line 396.
\* stop_run, lines 389-395.
StopRun_Read(max) ==
    /\ stop_message_id = None
    /\ Len(run_history) < max
    /\ running' = FALSE
    /\ Cleanup
    /\ stop_message_id' = Some(Len(run_history))
    /\ stopped' = [t \in Threads |-> stopped[t] \/ Alive(t)]
    /\ UNCHANGED <<gvars, cvars, tvars, mvars, error, loop_pc, loop_action,
                   run_button, retry_count, dvars>>
\* stop_run, lines 396-403.
StopRun_Append(d) ==
    /\ stop_message_id # None
    /\ LET h == Append(run_history, TextMessage(The(stop_message_id), StopNotice))
       IN /\ run_history' = h
          /\ SaveHistory(h, d)
    /\ stop_message_id' = None
    /\ UNCHANGED <<GatewayRest, cleaned_history, clean_pc, evars, tvars, mvars,
                   running, error, loop_pc, loop_action, run_button, stopped,
                   retry_count, retrieve_call>>

\* MainWindow.agent_finished, on the finished signal of a thread.
AgentFinished(t) ==
    /\ loop_pc[t] = "done"
    /\ loop_pc' = [loop_pc EXCEPT ![t] = "finished"]
    /\ run_button' = TRUE
    /\ UNCHANGED <<gvars, cvars, evars, tvars, mvars, stop_message_id, running, error, loop_action, stopped,
                   retry_count, dvars>>

\* run_agent, lines 200-224.
RunAgent_Start(t, d) ==
    /\ loop_pc[t] = "start"
    /\ IF error # None
       THEN /\ loop_pc' = [loop_pc EXCEPT ![t] = "done"]
            /\ NotSaved
            /\ UNCHANGED <<running, error, run_history, retry_count>>
       ELSE /\ running' = TRUE
            /\ error' = None
            /\ run_history' = <<Instruction>>
            /\ SaveHistory(<<Instruction>>, d)
            /\ IF SaveRaises(d)
               THEN \* the exception leaves run_agent
                    /\ loop_pc' = [loop_pc EXCEPT ![t] = "done"]
                    /\ UNCHANGED retry_count
               ELSE /\ retry_count' = [retry_count EXCEPT ![t] = 0]
                    /\ loop_pc' = [loop_pc EXCEPT ![t] = "head"]
    /\ UNCHANGED <<GatewayRest, cleaned_history, clean_pc, evars, tvars, mvars, stop_message_id,
                   loop_action, run_button, stopped, retrieve_call>>

\* run_agent, line 226 and the call of line 229: the loop test; when it
\* passes, the gateway request is issued.
RunAgent_Head(t, max) ==
    /\ loop_pc[t] = "head"
    /\ running => Len(run_history) < max
    /\ loop_pc' = [loop_pc EXCEPT ![t] = IF running THEN "request" ELSE "done"]
    /\ UNCHANGED <<gvars, cvars, evars, tvars, mvars, stop_message_id, running, error, loop_action,
                   run_button, stopped, retry_count, dvars>>

\* run_agent, lines 229-298 and 363-385: get_next_action returns or raises;
\* the response is appended and decoded.
RunAgent_Respond(t, o, d) ==
    /\ loop_pc[t] = "request"
    /\ IF ~o.ok
       THEN LET raised == RaisedToCaller(o.status)
            IN /\ IF /\ raised.exc_type = "AnthropicError"
                     /\ raised.status_code = Some(429)
                     /\ retry_count[t] < run_max_retries
                  THEN \* lines 365-372: wait retry_count * 2 seconds, continue
                       /\ retry_count' = [retry_count EXCEPT ![t] = @ + 1]
                       /\ loop_pc' = [loop_pc EXCEPT ![t] = "head"]
                       /\ UNCHANGED <<running, error>>
                  ELSE \* lines 374-378 and 380-385
                       /\ error' = Some(ErrorText(o.status))
                       /\ running' = FALSE
                       /\ loop_pc' = [loop_pc EXCEPT ![t] = "done"]
                       /\ UNCHANGED retry_count
               /\ NotSaved
               /\ UNCHANGED <<run_history, loop_action>>
       ELSE LET message == The(o.response)
                h == Append(run_history, message)
                saves == Len(run_history) % 5 = 0
                decoded == ExtractAction(message)
            IN /\ run_history' = h
               /\ IF saves THEN SaveHistory(h, d) ELSE NotSaved
               /\ IF saves /\ SaveRaises(d)
                  THEN \* lines 380-385
                       /\ error' = Some("Failed to save history to disk")
                       /\ running' = FALSE
                       /\ loop_pc' = [loop_pc EXCEPT ![t] = "done"]
                       /\ UNCHANGED <<retry_count, loop_action>>
                  ELSE
                  /\ retry_count' = [retry_count EXCEPT ![t] = 0]
                  /\ IF decoded.type = "error"
                     THEN /\ error' = Some(decoded.message)
                          /\ running' = FALSE
                          /\ loop_pc' = [loop_pc EXCEPT ![t] = "done"]
                          /\ UNCHANGED loop_action
                     ELSE IF decoded.type = "finish"
                     THEN /\ running' = FALSE
                          /\ loop_pc' = [loop_pc EXCEPT ![t] = "done"]
                          /\ UNCHANGED <<error, loop_action>>
                     ELSE /\ loop_action' = [loop_action EXCEPT
                                                ![t] = OptimizedAction(decoded.act)]
                          /\ loop_pc' = [loop_pc EXCEPT ![t] = "acting"]
                          /\ UNCHANGED <<running, error>>
    /\ UNCHANGED <<GatewayRest, cleaned_history, clean_pc, evars, tvars, mvars, stop_message_id,
                   run_button, stopped, retrieve_call>>

\* run_agent, lines 301-361: perform_action and what follows it.
RunAgent_Act(t, shot_ok, os_ok) ==
    /\ loop_pc[t] = "acting"
    /\ PerformAction(loop_action[t], 0, shot_ok, os_ok)
    /\ LET after == AfterAction(run_history, exec_result', running, error)
       IN /\ run_history' = after.history
          /\ running' = after.running
          /\ error' = after.error
    /\ loop_pc' = [loop_pc EXCEPT ![t] = "head"]
    /\ loop_action' = [loop_action EXCEPT ![t] = NoAction]
    /\ UNCHANGED <<gvars, cleaned_history, clean_pc, tvars, mvars, stop_message_id, run_button, stopped,
                   retry_count, dvars>>

Init == GatewayInit /\ CleanIdle /\ ExecIdle /\ TokensIdle /\ StoreIdle

Next ==
    /\ \/ \E h \in GatewayHistories : GetNextAction_Enter(h)
       \/ \E h \in GatewayHistories \cup MockHistories : GetNextAction_Mock(h)
       \/ \E o \in Outcomes, j \in Jitter : GetNextAction_Attempt(o, j)
       \/ GetNextAction_Return
       \/ CleanCache
       \/ \E p \in Prompts : SavePrompt(p)
       \/ Tick
    /\ UNCHANGED <<cvars, evars, tvars, mvars, svars, dvars>>

Spec == Init /\ [][Next]_vars

(***************************************************************************)
(* _clean_message_history applied to a history: the specification draws   *)
(* the history and applies the function.                                   *)
(***************************************************************************)
MaxTail == 3
CleanPool ==
    { SdkMsg("assistant_s_1", <<TextBlock(TRUE, "moving"), ToolUse(TRUE, "t1", "computer")>>),
      DictMsg("assistant", "assistant_s_1", <<ToolUse(FALSE, "t1", "computer")>>),
      SdkMsg("assistant_s_3", <<ToolUse(TRUE, "t2", "computer")>>),
      DictMsg("user", "user_s_2", <<ToolResult("t1")>>),
      DictMsg("user", "user_s_4", <<ToolResult("t2")>>),
      DictMsg("user", "user_s_2", <<TextBlock(FALSE, "Action failed: type")>>) }
CleanInputs ==
    { << >> } \cup
    { <<Instruction>> \o t : t \in UNION {[1..n -> CleanPool] : n \in 0..MaxTail} }

CleanInit ==
    /\ run_history \in CleanInputs
    /\ cleaned_history = << >>
    /\ clean_pc = "idle"

Clean ==
    /\ clean_pc = "idle"
    /\ cleaned_history' = CleanMessageHistory(run_history)
    /\ clean_pc' = "done"
    /\ UNCHANGED run_history

InitClean == GatewayInit /\ ~use_mock_api /\ enable_caching /\ CleanInit /\ ExecIdle /\ TokensIdle /\ StoreIdle
NextClean == Clean /\ UNCHANGED <<gvars, evars, tvars, mvars, svars, dvars>>
SpecClean == InitClean /\ [][NextClean]_vars

(***************************************************************************)
(* ComputerControl driven by arbitrary actions.                            *)
(***************************************************************************)
InitExec == GatewayInit /\ ~use_mock_api /\ enable_caching /\ CleanIdle /\ ExecIdle /\ TokensIdle /\ StoreIdle
NextExec ==
    /\ \/ \E a \in ExecActions, r \in ExecRuns : PerformAction(a, r[1], r[2], r[3])
       \/ Cleanup
       \/ ExecTick
    /\ UNCHANGED <<gvars, cvars, tvars, mvars, svars, dvars>>
SpecExec == InitExec /\ [][NextExec]_vars

(***************************************************************************)
(* count_tokens called on one client, with time passing and the caches     *)
(* cleaned between the calls.                                              *)
(***************************************************************************)
InitTokens == GatewayInit /\ ~use_mock_api /\ CleanIdle /\ ExecIdle /\ TokensIdle /\ StoreIdle
NextTokens ==
    /\ \/ \E t \in TokenTexts, o \in CountOutcomes : CountTokens(t, o)
       \/ CleanCache /\ UNCHANGED count_call
       \/ Tick /\ UNCHANGED count_call
    /\ UNCHANGED <<cvars, evars, mvars, svars, dvars>>
SpecTokens == InitTokens /\ [][NextTokens]_vars

(***************************************************************************)
(* The coordinate maps applied to points under several geometries.         *)
(***************************************************************************)
InitMap ==
    /\ GatewayInit /\ ~use_mock_api /\ enable_caching
    /\ CleanIdle /\ ExecIdle /\ count_call = NoCount /\ StoreIdle
    /\ map_call \in {[NoMapping EXCEPT !.geometry = g, !.point = p] :
                         g \in Geometries, p \in MapPoints}
    /\ region_call = NoRegion
NextMap ==
    /\ MapPoint(map_call.geometry, map_call.point)
    /\ UNCHANGED <<gvars, cvars, evars, tvars, svars, dvars>>
SpecMap == InitMap /\ [][NextMap]_vars

(***************************************************************************)
(* get_region_of_interest on several displays, for every element type and  *)
(* several pointer positions.                                              *)
(***************************************************************************)
InitRegion ==
    /\ GatewayInit /\ ~use_mock_api /\ enable_caching
    /\ CleanIdle /\ ExecIdle /\ count_call = NoCount /\ StoreIdle
    /\ map_call = NoMapping
    /\ region_call \in {[NoRegion EXCEPT !.size = s, !.element_type = e,
                                         !.cursor = c] :
                            s \in RegionScreens, e \in ElementTypes,
                            c \in UNION {CursorsOn(z) : z \in RegionScreens}}
    /\ region_call.cursor \in CursorsOn(region_call.size)
NextRegion ==
    /\ RegionOfInterest(region_call.size, region_call.element_type,
                        region_call.cursor)
    /\ UNCHANGED <<gvars, cvars, evars, tvars, svars, dvars>>
SpecRegion == InitRegion /\ [][NextRegion]_vars

(***************************************************************************)
(* One Store driven by the window: run requests, stop requests and the     *)
(* threads they start.                                                     *)
(***************************************************************************)
InitRun ==
    /\ GatewayInit /\ ~use_mock_api /\ enable_caching
    /\ CleanIdle /\ ExecIdle /\ TokensIdle /\ StoreIdle
NextRun ==
    \/ \E src \in {"button", "shortcut", "voice"} : RunRequest(src)
    \/ StopRun("ok", MaxHistory)
    \/ \E t \in Threads : AgentFinished(t)
    \/ \E t \in Threads : RunAgent_Start(t, "ok")
    \/ \E t \in Threads : RunAgent_Head(t, MaxHistory)
    \/ \E t \in Threads, o \in RunOutcomes : RunAgent_Respond(t, o, "ok")
    \/ \E t \in Threads, r \in ActRuns : RunAgent_Act(t, r[1], r[2])
SpecRun == InitRun /\ [][NextRun]_vars

(***************************************************************************)
(* The first run of a Store, started with the run button, on a disk that   *)
(* may fail; the screen capture and the OS input succeed.                  *)
(***************************************************************************)
InitDisk == InitRun
\* The history is long enough for the save of every fifth message.
MaxDiskHistory == 6
\* The gateway answers with a click, with finish, or gives up.
DiskRunOutcomes ==
    {o \in RunOutcomes :
         IF o.ok THEN The(o.response).content[1].id \in {"t_click", "t_fin"}
         ELSE o.status = None}
NextDisk ==
    \/ RunRequest("button") /\ loop_pc["t1"] = "none"
    \/ \E d \in DiskOutcomes : StopRun(d, MaxDiskHistory)
    \/ \E t \in Threads : AgentFinished(t)
    \/ \E t \in Threads, d \in DiskOutcomes : RunAgent_Start(t, d)
    \/ \E t \in Threads : RunAgent_Head(t, MaxDiskHistory)
    \/ \E t \in Threads, o \in DiskRunOutcomes, d \in DiskOutcomes :
           RunAgent_Respond(t, o, d)
    \/ \E t \in Threads : RunAgent_Act(t, TRUE, TRUE)
SpecDisk == InitDisk /\ [][NextDisk]_vars

(***************************************************************************)
(* The first run of a Store on a disk that takes every write, long enough  *)
(* for the history to pass the second multiple of five.                    *)
(***************************************************************************)
InitCadence == InitRun
MaxCadenceHistory == 12
\* The gateway answers as in DiskRunOutcomes, or with a click for which the
\* model asks to skip the screenshot after it (the system prompt of
\* config.py:103 offers the parameter).
SkipResponse ==
    ComputerUse("t_skip", [NoInput EXCEPT !.action = Some("left_click"),
                                          !.skip_after_screenshot = Some(TRUE)])
CadenceRunOutcomes ==
    DiskRunOutcomes
        \cup {[ok |-> TRUE, response |-> Some(SkipResponse), status |-> None]}
NextCadence ==
    \/ RunRequest("button") /\ loop_pc["t1"] = "none"
    \/ StopRun("ok", MaxCadenceHistory)
    \/ \E t \in Threads : AgentFinished(t)
    \/ \E t \in Threads : RunAgent_Start(t, "ok")
    \/ \E t \in Threads : RunAgent_Head(t, MaxCadenceHistory)
    \/ \E t \in Threads, o \in CadenceRunOutcomes : RunAgent_Respond(t, o, "ok")
    \/ \E t \in Threads : RunAgent_Act(t, TRUE, TRUE)
SpecCadence == InitCadence /\ [][NextCadence]_vars

(***************************************************************************)
(* The first run of a Store with stop_run taken line by line: the thread   *)
(* of run_agent can run between the two accesses stop_run makes to the     *)
(* history.  The UI thread handles one event at a time.                    *)
(***************************************************************************)
InitStop == InitRun
MaxStopHistory == 4
NextStop ==
    \/ RunRequest("button") /\ loop_pc["t1"] = "none" /\ stop_message_id = None
    \/ StopRun_Read(MaxStopHistory)
    \/ StopRun_Append("ok")
    \/ \E t \in Threads : AgentFinished(t) /\ stop_message_id = None
    \/ \E t \in Threads : RunAgent_Start(t, "ok")
    \/ \E t \in Threads : RunAgent_Head(t, MaxStopHistory)
    \/ \E t \in Threads, o \in DiskRunOutcomes : RunAgent_Respond(t, o, "ok")
    \/ \E t \in Threads, r \in ActRuns : RunAgent_Act(t, r[1], r[2])
SpecStop == InitStop /\ [][NextStop]_vars

(***************************************************************************)
(* retrieve_message_by_id applied to the histories and the snapshots a     *)
(* Store can hold: the snapshot is the history as stop_run left it, or     *)
(* that of an earlier run when a later write failed.                       *)
(***************************************************************************)
ClickResponse == ComputerUse("t_click", [NoInput EXCEPT !.action = Some("left_click")])
FinishResponse ==
    SdkMsg("msg_r", <<ToolUseBlock("t_fin", "finish_run",
                                   [NoInput EXCEPT !.success = Some(TRUE)])>>)
RetrieveHistories ==
    { << >>,
      <<Instruction>>,
      <<Instruction, ClickResponse>>,
      <<Instruction, FinishResponse>>,
      <<Instruction, ClickResponse, TextMessage(2, ActionFailedText(Screenshot(TRUE)))>>,
      <<Instruction, TextMessage(1, StopNotice), FinishResponse>>,
      <<Instruction, ClickResponse, TextMessage(2, ActionFailedText(Screenshot(TRUE))),
        FinishResponse>> }
RetrieveSnapshots ==
    { None,
      Some(<<Instruction>>),
      Some(<<Instruction, TextMessage(1, StopNotice)>>),
      Some(<<Instruction, ClickResponse, TextMessage(2, StopNotice)>>),
      Some(<<Instruction, FinishResponse, TextMessage(2, StopNotice)>>) }
InitRetrieve ==
    /\ GatewayInit /\ ~use_mock_api /\ enable_caching
    /\ run_history \in RetrieveHistories /\ cleaned_history = << >> /\ clean_pc = "idle"
    /\ ExecIdle /\ TokensIdle
    /\ running = FALSE
    /\ error = None
    /\ loop_pc = [t \in Threads |-> "none"]
    /\ loop_action = [t \in Threads |-> NoAction]
    /\ run_button = TRUE
    /\ stopped = [t \in Threads |-> FALSE]
    /\ retry_count = [t \in Threads |-> 0]
    /\ stop_message_id = None
    /\ history_file \in RetrieveSnapshots
    /\ save_call = NoSave
    /\ retrieve_call = NoRetrieval
NextRetrieve == \E id \in MessageIds, read_ok \in BOOLEAN : Retrieve(id, read_ok)
SpecRetrieve == InitRetrieve /\ [][NextRetrieve]_vars

(***************************************************************************)
(* Claims about AnthropicClient, checked under Spec.                       *)
(***************************************************************************)
SamePromptAsPrior ==
    call.prior # None /\ The(call.prior).system_prompt = call.system_prompt

\* C1: with caching enabled, a get_next_action call whose cleaned history (and
\* system prompt) equals that of a network success at most cache_ttl seconds
\* before makes no network attempt and returns that call's response.
C1_CacheIdempotence ==
    (enable_caching /\ SamePromptAsPrior)
        => /\ gw_pc = "returned"
           /\ call.attempts = 0
           /\ result = Returned(The(call.prior).response)

C1_Witness ==
    /\ enable_caching
    /\ SamePromptAsPrior
    /\ The(call.prior).age = cache_ttl
    /\ gw_pc = "returned"
    /\ call.attempts = 0
    /\ Len(call.history) > 1

\* The slice the specification describes: first message, one summary notice,
\* the last ceil(threshold * 0.75) messages.
KeepCount == CeilDiv(history_truncation_threshold * 3, 4)
IsTruncatedSlice(sent, h) ==
    /\ Len(sent) = 2 + KeepCount
    /\ sent[1] = MsgDict(h[1])
    /\ \A i \in 1..KeepCount :
           sent[2 + i] = MsgDict(h[Len(h) - KeepCount + i])

\* C3: with truncation enabled and more messages than the threshold, the
\* messages sent are the first message, one summary notice and the last
\* ceil(threshold * 0.75) messages.
C3_TruncatedSliceSent ==
    (/\ call.attempts >= 1
     /\ truncate_history
     /\ Len(call.history) > history_truncation_threshold)
        => IsTruncatedSlice(call.sent, call.history)

\* C6 as stated: the network attempts of any window, failed ones included,
\* number at most max_calls_per_minute.
C6_AllAttemptsLimited == Len(attempt_times) <= max_calls_per_minute

\* C6 as amended: the successful network calls of any window (the only ones
\* recorded in api_calls) number at most max_calls_per_minute.
C6_SuccessesLimited == Len(success_times) <= max_calls_per_minute

C6_Witness ==
    /\ gw_pc = "returned"
    /\ call.attempts >= 1
    /\ call.rl_wait > 0
    /\ Len(success_times) = max_calls_per_minute

\* C7: entered with at least max_calls_per_minute timestamps younger than the
\* window, _apply_rate_limiting blocks for at least window - (now - oldest)
\* before the network call; entered with fewer, it does not block.
C7_BlocksUntilOldestLeaves ==
    (gw_pc = "attempting" \/ call.attempts >= 1)
        => IF call.rl_count >= max_calls_per_minute
           THEN call.rl_slept * Resolution
                    >= (rate_limit_window - The(call.rl_oldest)) * Resolution
           ELSE call.rl_slept = 0 /\ call.rl_wait = 0

C7_Witness ==
    /\ call.attempts >= 1
    /\ call.rl_count >= max_calls_per_minute
    /\ call.rl_slept >= rate_limit_window - The(call.rl_oldest)
    /\ The(call.rl_oldest) > 0

LastFailure == call.failures[Len(call.failures)]

\* C8: a failing get_next_action hands its caller an AnthropicError whose
\* status_code is the status of the last failed attempt.
C8_TypedErrorWithStatus ==
    (gw_pc = "raised" /\ call.failures # << >>)
        => /\ result.exc_type = "AnthropicError"
           /\ result.status_code = LastFailure.status

AllFailuresIn(statuses) ==
    \A i \in DOMAIN call.failures :
        /\ call.failures[i].status # None
        /\ call.failures[i].status \subseteq statuses

\* C9: when every attempt fails with 429, 500, 502, 503 or 504, the call
\* makes exactly max_retries attempts, sleeps strictly increasing delays and
\* then fails; no call makes more than max_retries attempts.
C9_RetryExhaustion ==
    /\ call.attempts <= max_retries
    /\ (/\ gw_pc = "raised"
        /\ call.failures # << >>
        /\ AllFailuresIn({429, 500, 502, 503, 504}))
           => /\ call.attempts = max_retries
              /\ Len(call.sleeps) = max_retries
              /\ \A i, k \in DOMAIN call.sleeps :
                     i < k => call.sleeps[i] < call.sleeps[k]

C9_Witness ==
    /\ gw_pc = "raised"
    /\ call.attempts = max_retries
    /\ AllFailuresIn({429, 500, 502, 503, 504})
    /\ Len(call.sleeps) = max_retries

\* The i-th failed attempt was followed by another attempt, or used up the
\* last of the max_retries attempts.
NotEndedBy(i) ==
    ~(gw_pc = "raised" /\ i = Len(call.failures) /\ i < max_retries)
\* The i-th failed attempt ended the call at once, with no backoff sleep.
EndedAtOnceBy(i) ==
    /\ gw_pc = "raised"
    /\ i = Len(call.failures)
    /\ call.attempts = i
    /\ Len(call.sleeps) = i - 1
\* Backoff sleeps made for the first i failed attempts.
SleptAfter(i) == Len(call.sleeps) >= i

StatedRetryable(f) ==
    \/ f.kind = "APITimeoutError"
    \/ /\ f.status # None
       /\ \/ The(f.status) = 429
          \/ The(f.status) \in 500..599

\* C10 as stated: a failed attempt is retried iff it is a rate-limit
\* response, a timeout or a 5xx; any other failure ends the call.
C10_RetriedIffTransient ==
    \A i \in DOMAIN call.failures :
        IF StatedRetryable(call.failures[i])
        THEN NotEndedBy(i) /\ SleptAfter(i)
        ELSE EndedAtOnceBy(i)

ListedRetryable(f) ==
    f.status # None /\ The(f.status) \in {429, 500, 502, 503, 504}

\* C10 as amended: a failed attempt is retried iff its status is 429, 500,
\* 502, 503 or 504; any other failure (a timeout, 501, 401, ...) ends the
\* call at that attempt with no backoff sleep.
C10_RetriedIffListedStatus ==
    \A i \in DOMAIN call.failures :
        IF ListedRetryable(call.failures[i])
        THEN NotEndedBy(i) /\ SleptAfter(i)
        ELSE EndedAtOnceBy(i)

C10_Witness ==
    /\ gw_pc = "raised"
    /\ Len(call.failures) = 2
    /\ call.failures[1].status = Some(429)
    /\ call.failures[2].status = Some(501)
    /\ Len(call.sleeps) = 1

(***************************************************************************)
(* Claim about _clean_message_history, checked under SpecClean.            *)
(***************************************************************************)
\* Ids answered by a tool_result block of a user message of c.
AnsweredIds(c) ==
    UNION { {b.id : b \in {x \in Range(c[i].content) : x.type = "tool_result"}} :
            i \in {k \in DOMAIN c : c[k].role = "user"} }
\* An assistant message of c holds a tool_use block nobody answers.
HasDanglingToolUse(c) ==
    \E i \in DOMAIN c :
        /\ c[i].role = "assistant"
        /\ \E b \in Range(c[i].content) :
               b.type = "tool_use" /\ b.id \notin AnsweredIds(c)

\* C2: whether the assistant messages are dicts or SDK message objects, the
\* list _clean_message_history returns holds no assistant message with a
\* tool_use block whose id no tool_result of a user message answers.
C2_NoDanglingToolUse ==
    clean_pc = "done" => ~HasDanglingToolUse(cleaned_history)

(***************************************************************************)
(* Claims about ComputerControl.perform_action, checked under SpecExec.    *)
(***************************************************************************)
\* The input texts that contain a denylisted substring, case-insensitively.
DeniedTexts == {Text_sudo_ls, Text_SuDo_ls, Text_rm_rf, Text_dd_if, Text_chmod_777}
Blocked == os_calls = << >> /\ exec_result = ErrorImage

\* C4 as stated: a 'type' or 'key' action whose text contains a denylisted
\* substring makes no OS input call and returns the error image.
C4_DeniedTextBlocked ==
    (/\ action.type \in {Some("type"), Some("key")}
     /\ action.text # None
     /\ The(action.text) \in DeniedTexts)
        => Blocked

\* C4 as amended: a 'type' action whose text contains a denylisted
\* substring makes no OS input call and returns the error image (the text
\* of a 'key' action is not screened).
C4_DeniedTypeTextBlocked ==
    (/\ action.type = Some("type")
     /\ action.text # None
     /\ The(action.text) \in DeniedTexts)
        => Blocked

C4_Witness ==
    /\ action.type = Some("type")
    /\ action.text = Some(Text_SuDo_ls)
    /\ Blocked
    /\ last_click_position # None

\* C5: a mouse_move or left_click_drag action whose coordinates are missing
\* or outside 0 <= x <= 1.1 * ai_width, 0 <= y <= 1.1 * ai_height makes no
\* OS call and returns the error image.
C5_PointerOnlyWithinBounds ==
    (/\ action.type \in {Some("mouse_move"), Some("left_click_drag")}
     /\ ~(/\ action.x # None
          /\ action.y # None
          /\ 0 <= The(action.x) /\ 10 * The(action.x) <= 11 * ai_display_width
          /\ 0 <= The(action.y) /\ 10 * The(action.y) <= 11 * ai_display_height))
        => Blocked

C5_Witness ==
    /\ action.type = Some("left_click_drag")
    /\ action.x = Some(1126)
    /\ action.y = Some(705)
    /\ Blocked
    /\ pointer = MapFromAiSpace(1126, 704)

(***************************************************************************)
(* Response cache: expiry and key                                          *)
(***************************************************************************)
\* The call found an entry for its history, older than cache_ttl.
FoundStaleEntry == call.cached # None /\ The(call.cached).age > cache_ttl
\* The call returned without an attempt and not from the mock generator.
ServedFromCache == ~use_mock_api /\ gw_pc = "returned" /\ call.attempts = 0

\* C20: a response is served from the cache only when the entry of the
\* history is at most cache_ttl old; a call that finds an older entry goes to
\* the network, and when the network answers the entry of the history holds
\* the new response with a new timestamp.
C20_ServedOnlyWithinTtl ==
    /\ ServedFromCache
           => call.cached # None /\ The(call.cached).age <= cache_ttl
    /\ FoundStaleEntry
           => /\ gw_pc = "attempting" \/ call.attempts >= 1
              /\ gw_pc = "returned"
                     => LET e == message_hash_cache[ComputeHashList(call.cleaned)]
                        IN /\ e.age = 0
                           /\ e.v = ComputeHashValue(The(result.response))
                           /\ response_cache[e.v] =
                                  [v |-> The(result.response), age |-> 0]

C20_Witness ==
    /\ FoundStaleEntry
    /\ gw_pc = "returned"
    /\ call.attempts >= 1
    /\ message_hash_cache[ComputeHashList(call.cleaned)].v # The(call.cached).v

\* C19: a call whose system prompt differs from that of the call that filled
\* the cache is never served that call's response.
C19_KeyDistinguishesSystemPrompt ==
    (call.prior # None /\ The(call.prior).system_prompt # call.system_prompt)
        => ~(ServedFromCache /\ result = Returned(The(call.prior).response))

(***************************************************************************)
(* Responses always carry a tool call                                      *)
(***************************************************************************)
ToolUseBlocks(r) == SelectSeq(r.content, LAMBDA b : b.type = "tool_use")
\* The network responses of the model that carry no tool_use block.
TextOnlyResponses == {SdkMsg("msg_b", <<TextBlock(TRUE, "which browser?")>>)}
Repaired(o) ==
    Append(o.content,
           [type |-> "tool_use", id |-> "synthetic_finish", name |-> "finish_run",
            text |-> "", obj |-> TRUE,
            input |-> [NoInput EXCEPT
                          !.success = Some(FALSE),
                          !.error = Some(<<"Claude needs more information: ",
                                           o.content[1].text>>)]])

\* C11: every response get_next_action returns (network, cache or mock) has
\* at least one tool_use block; a returned response whose blocks begin with
\* those of a text-only network response is that response followed by
\* exactly one finish_run block with success false and an error embedding
\* the text.
C11_ResponseHasToolUse ==
    gw_pc = "returned"
        => /\ result.response # None
           /\ ToolUseBlocks(The(result.response)) # << >>
           /\ \A o \in TextOnlyResponses :
                  The(result.response).id = o.id
                      => The(result.response).content = Repaired(o)

C11_Witness ==
    /\ gw_pc = "returned"
    /\ call.attempts >= 1
    /\ The(result.response).id = "msg_b"
    /\ Len(The(result.response).content) = 2

\* The other two origins of a response: the cache and the mock generator.
C11_WitnessCacheAndMock ==
    \/ /\ gw_pc = "returned" /\ ~use_mock_api /\ call.attempts = 0
       /\ The(result.response).id = "msg_b"
    \/ /\ gw_pc = "returned" /\ use_mock_api
       /\ ToolUseBlocks(The(result.response))[1].name = "computer"

(***************************************************************************)
(* count_tokens                                                            *)
(***************************************************************************)
\* C18: count_tokens never raises; a text whose count is cached gets the
\* cached count without a remote call; when the remote call fails the result
\* is an integer computed locally.
C18_CountTokensNeverRaises ==
    /\ count_call.kind # "raised"
    /\ count_call.cached # None
           => /\ count_call.kind = "returned"
              /\ count_call.value = count_call.cached
              /\ ~count_call.remote_called
    /\ count_call.remote_failed
           => count_call.kind = "returned" /\ count_call.value \subseteq Nat

\* What holds of the code: the two other parts of C18, and no exception for
\* a text that encodes to UTF-8 or with caching disabled.
CountTokensRaisesOnlyUnencodable ==
    /\ count_call.kind = "raised"
           => enable_caching /\ ~The(count_call.text).encodable
    /\ count_call.cached # None
           => /\ count_call.kind = "returned"
              /\ count_call.value = count_call.cached
              /\ ~count_call.remote_called
    /\ count_call.remote_failed
           => /\ count_call.kind = "returned"
              /\ count_call.value # None
              /\ count_call.value \subseteq Nat
CountTokensWitness ==
    /\ count_call.cached # None
    /\ count_call.kind = "returned"
    /\ token_count_cache[ComputeHashValue(The(count_call.text).chars)].age > cache_ttl

(***************************************************************************)
(* The orchestrator loop and the threads of the window                     *)
(***************************************************************************)
LastMessage == run_history[Len(run_history)]
IsOneTextUserMessage(m) ==
    /\ m.role = "user" /\ ~m.sdk /\ m.list
    /\ Len(m.content) = 1
    /\ m.content[1].type = "text"
    /\ m.content[1].text # ""

\* C12: a thread that was alive when stop_run was called does not pass the
\* loop test again: from the loop test it never goes on to a gateway request.
C12_StopEndsLoopAtBoundary ==
    [][\A t \in Threads :
           (stopped[t] /\ loop_pc[t] = "head") => loop_pc'[t] # "request"]_vars

\* C13: at most one thread is inside the loop of run_agent.
C13_AtMostOneLoop ==
    Cardinality({t \in Threads : loop_pc[t] \in {"head", "request", "acting"}}) <= 1
\* Two gateway requests of the Store in flight.
TwoRequestsInFlight == \A t \in Threads : loop_pc[t] = "request"
\* Two perform_action calls of the Store in flight.
TwoActionsInFlight == \A t \in Threads : loop_pc[t] = "acting"

\* C14: while a thread is alive, a step of the UI thread leaves the history,
\* the screenshot cache, the three gateway caches and the list of recorded
\* calls as they are.
UiStep ==
    \/ \E src \in {"button", "shortcut", "voice"} : RunRequest(src)
    \/ \E d \in DiskOutcomes, max \in {MaxHistory, MaxDiskHistory} : StopRun(d, max)
    \/ \E t \in Threads : AgentFinished(t)
C14_OnlyRunFlagWrittenByUi ==
    [][(UiStep /\ \E t \in Threads : Alive(t))
           => UNCHANGED <<run_history, screenshot_cache, token_count_cache,
                          message_hash_cache, response_cache, api_calls>>]_vars

\* C15: the step of a thread whose action the executor rejects leaves the
\* run flag and the error as they are and brings the thread to the loop test;
\* from the loop test with the flag true a thread goes on to a gateway request.
C15_RejectionDoesNotAbort ==
    [][\A t \in Threads :
           /\ (/\ loop_pc[t] = "acting" /\ loop_pc'[t] # "acting"
               /\ ~ValidateActionSafety(loop_action[t]))
                  => /\ running' = running
                     /\ error' = error
                     /\ loop_pc'[t] = "head"
                     /\ os_calls' = << >>
           /\ (loop_pc[t] = "head" /\ loop_pc'[t] # "head" /\ running /\ error = None)
                  => loop_pc'[t] = "request"]_vars

C15_Witness ==
    \E t \in Threads :
        /\ loop_pc[t] = "head"
        /\ running /\ error = None
        /\ action.text = Some(Text_rm_rf)
        /\ exec_result = ErrorImage
        /\ IsOneTextUserMessage(LastMessage)

\* C16: the step of a thread whose perform_action call raises appends exactly
\* one user message with a single text block, leaves the run flag and the
\* error as they are and brings the thread to the loop test.
C16_ExecutionFailureReported ==
    [][\A t \in Threads :
           (/\ loop_pc[t] = "acting" /\ loop_pc'[t] # "acting"
            /\ exec_result'.kind = "raised")
               => /\ Len(run_history') = Len(run_history) + 1
                  /\ SubSeq(run_history', 1, Len(run_history)) = run_history
                  /\ IsOneTextUserMessage(run_history'[Len(run_history')])
                  /\ running' = running
                  /\ error' = error
                  /\ loop_pc'[t] = "head"]_vars

C16_Witness ==
    \E t \in Threads :
        /\ loop_pc[t] = "head"
        /\ running /\ error = None
        /\ action.type = Some("left_click")
        /\ exec_result = ActionFailed
        /\ IsOneTextUserMessage(LastMessage)

\* The responses of the model that do not decode: tool other than
\* computer/finish_run, no action type, unknown action type, keyboard action
\* without text, mouse_move without coordinates.
UndecodableIds == {"t_bash", "t_none", "t_scroll", "t_type", "t_move"}
GotUndecodable(t) ==
    /\ loop_pc[t] = "request" /\ loop_pc'[t] # "request"
    /\ Len(run_history') = Len(run_history) + 1
    /\ run_history'[Len(run_history')].sdk
    /\ run_history'[Len(run_history')].content[1].id \in UndecodableIds

\* C17: the step of a thread that receives a response that does not decode
\* sets the error, sets the run flag to false and ends the thread's loop;
\* nothing is handed to the executor.
C17_DecodeErrorEndsRun ==
    [][\A t \in Threads :
           GotUndecodable(t)
               => /\ error' # None
                  /\ running' = FALSE
                  /\ loop_pc'[t] = "done"
                  /\ UNCHANGED evars]_vars

C17_Witness ==
    \E t \in Threads :
        /\ loop_pc[t] = "done"
        /\ error = Some("Missing text for keyboard action")
        /\ ~running
        /\ LastMessage.sdk /\ LastMessage.content[1].id = "t_type"
        /\ exec_result = NoExecResult

(***************************************************************************)
(* Claims about the screenshot perform_action returns, checked under       *)
(* SpecExec.                                                               *)
(***************************************************************************)
\* The last perform_action dispatched OS input and went on to the
\* after-capture of lines 325-330.
CapturedAfterInput ==
    /\ os_calls # << >>
    /\ ~action.skip_after_screenshot
    /\ exec_result.kind \in {"screenshot", "error_image"}

\* C25: when perform_action dispatched its OS input and did not skip the
\* after-capture, the screenshot it returns shows the screen as the input
\* left it: it is never an image captured before the input.
C25_AfterScreenshotIsFresh ==
    (CapturedAfterInput /\ exec_result.kind = "screenshot") => exec_result.current

\* The before-screenshot of the same call is returned as the after-screenshot.
C25_BeforeImageServedAgain ==
    /\ CapturedAfterInput
    /\ ~action.skip_before_screenshot
    /\ exec_result = Screenshot(FALSE)

(***************************************************************************)
(* The response cache across runs, checked under Spec.  Store.__init__     *)
(* builds one AnthropicClient (store.py:48) that serves every run of the   *)
(* Store, and run_agent starts every run with the history                  *)
(* [instructions] (store.py:212-216); a later request of a run carries     *)
(* the response appended to it, so a call with a one-message history is    *)
(* the first request of a run.                                             *)
(***************************************************************************)
FirstRequestOfRun == gw_pc # "idle" /\ Len(call.history) = 1

\* C30: the first gateway request of a run is never served from the cache:
\* it performs a network call even when an earlier run with the same
\* instructions was answered within cache_ttl.
C30_FirstRequestGoesToNetwork ==
    FirstRequestOfRun => ~ServedFromCache

\* The first request of a run is answered with what the network gave an
\* earlier run.
C30_ServedEarlierRun ==
    /\ FirstRequestOfRun
    /\ ServedFromCache
    /\ call.prior # None
    /\ result = Returned(The(call.prior).response)

(***************************************************************************)
(* The loop's handling of a screenshot, of finish and of a stop request,   *)
(* checked under SpecRun.                                                  *)
(***************************************************************************)
\* A user message made of one tool_result block that answers a tool use of
\* the history h.
IsToolResultMessage(m, h) ==
    /\ m.role = "user" /\ ~m.sdk /\ m.list
    /\ Len(m.content) = 1
    /\ m.content[1].type = "tool_result"
    /\ m.content[1].id \in ToolUseIds(h)

\* C24: the step of a thread whose perform_action call returns a screenshot
\* appends exactly one user message, made of a single tool_result block that
\* carries the id of a tool-use block of the history.
C24_ScreenshotAppendedAsToolResult ==
    [][\A t \in Threads :
           (/\ loop_pc[t] = "acting" /\ loop_pc'[t] # "acting"
            /\ exec_result'.kind = "screenshot")
               => /\ Len(run_history') = Len(run_history) + 1
                  /\ SubSeq(run_history', 1, Len(run_history)) = run_history
                  /\ IsToolResultMessage(run_history'[Len(run_history')],
                                         run_history)]_vars

\* The thread's step received a response whose first tool use is finish_run.
GotFinish(t) ==
    /\ loop_pc[t] = "request" /\ loop_pc'[t] # "request"
    /\ Len(run_history') = Len(run_history) + 1
    /\ run_history'[Len(run_history')].sdk
    /\ ToolUseBlocks(run_history'[Len(run_history')]) # << >>
    /\ ToolUseBlocks(run_history'[Len(run_history')])[1].name = "finish_run"

\* C26: the step of a thread that receives finish (a finish_run call of the
\* model or the synthetic one of a prose-only response) sets the run flag to
\* false and ends the thread's loop; the executor is not called, nothing but
\* the response is appended to the history and the error is left as it is.
C26_FinishEndsLoopQuietly ==
    [][\A t \in Threads :
           GotFinish(t)
               => /\ running' = FALSE
                  /\ loop_pc'[t] = "done"
                  /\ UNCHANGED evars
                  /\ SubSeq(run_history', 1, Len(run_history)) = run_history
                  /\ error' = error]_vars

C26_Witness ==
    \E t \in Threads :
        /\ loop_pc[t] = "done"
        /\ ~running /\ error = None
        /\ LastMessage.sdk
        /\ ToolUseBlocks(LastMessage)[1].id = "synthetic_finish"
        /\ exec_result = NoExecResult

\* C28: a thread that was alive when stop_run was called never sets the run
\* flag back to true: after the stop request the flag stays false for the
\* run that was asked to stop.
C28_StopIsNotLost ==
    [][\A t \in Threads :
           (stopped[t] /\ loop_pc'[t] # loop_pc[t]) => (running' => running)]_vars

\* stop_run ran between the start of the thread and the first line of
\* run_agent; the thread is inside the loop with the flag true.
C28_StopBeforeStart ==
    \E t \in Threads :
        /\ stopped[t] /\ running
        /\ loop_pc[t] \in {"request", "acting"}
        /\ \A u \in Threads \ {t} : loop_pc[u] = "none"

\* The thread's step ended the run because the gateway gave up on a
\* rate-limit error.
StoppedOnRateLimit(t) ==
    /\ loop_pc[t] = "request" /\ loop_pc'[t] = "done"
    /\ error' = Some(ErrorText(Some(429)))

\* C29: the loop ends a run on a rate-limit failure of the gateway only after
\* it has re-issued the request max_retries times: before that it waits and
\* goes back to the loop test with the run flag and the error as they are.
C29_RateLimitRetriedBeforeStop ==
    [][\A t \in Threads :
           StoppedOnRateLimit(t) => retry_count[t] >= run_max_retries]_vars

\* A run ended by the first rate-limit failure, without any retry.
C29_StoppedWithoutRetry ==
    \E t \in Threads :
        /\ loop_pc[t] = "done"
        /\ error = Some(ErrorText(Some(429)))
        /\ ~running
        /\ retry_count[t] = 0

(***************************************************************************)
(* The coordinate maps, checked under SpecMap.                             *)
(***************************************************************************)
\* C23: in exact arithmetic the two maps are inverse to each other in both
\* orders, each axis is scaled by the ratio of the two sizes of that axis
\* with no offset, and the origin is mapped to the origin.
C23_MapsAreInverse ==
    map_call.done =>
        LET g == map_call.geometry
            p == <<Whole(map_call.point[1]), Whole(map_call.point[2])>>
        IN /\ map_call.to_from = p
           /\ map_call.from_to = p
           /\ Scale(map_call.from_ai[1], g.ai_width, 1)
                  = Whole(map_call.point[1] * g.screen_width)
           /\ Scale(map_call.from_ai[2], g.ai_height, 1)
                  = Whole(map_call.point[2] * g.screen_height)
           /\ Scale(map_call.to_ai[1], g.screen_width, 1)
                  = Whole(map_call.point[1] * g.ai_width)
           /\ Scale(map_call.to_ai[2], g.screen_height, 1)
                  = Whole(map_call.point[2] * g.ai_height)
           /\ map_call.point = <<0, 0>>
                  => map_call.from_ai = NoPoint /\ map_call.to_ai = NoPoint

\* A point whose image is not a whole pixel in either space.
C23_Witness ==
    /\ map_call.done
    /\ map_call.geometry = Geometry(1366, 768, 1024, 640)
    /\ map_call.point = <<1023, 639>>
    /\ map_call.from_ai[1].den > 1 /\ map_call.to_ai[2].den > 1
    /\ map_call.to_from = <<Whole(1023), Whole(639)>>

(***************************************************************************)
(* retrieve_message_by_id, checked under SpecRetrieve.                     *)
(***************************************************************************)
PositionsOf(h, id) == {i \in DOMAIN h : h[i].id = id}
\* The call handed back message m, as it is or as a dict of the same role,
\* content and id.
HandedBack(m) ==
    /\ retrieve_call.message # None
    /\ LET r == The(retrieve_call.message)
       IN r.role = m.role /\ r.id = m.id /\ r.content = m.content /\ r.text = m.text

\* C22: a call returns and does not raise; it returns the first message of
\* the in-memory history that has the id; when the history has none, the
\* first message of the snapshot that has it; and None when neither has it
\* or the snapshot cannot be read.
C22_RetrieveMemoryThenSnapshot ==
    retrieve_call.kind # "none" =>
        LET in_memory == PositionsOf(run_history, retrieve_call.id)
            snapshot == IF retrieve_call.read_ok /\ history_file # None
                        THEN The(history_file) ELSE << >>
            on_disk == PositionsOf(snapshot, retrieve_call.id)
        IN /\ retrieve_call.kind = "returned"
           /\ in_memory # {} => HandedBack(run_history[Min(in_memory)])
           /\ (in_memory = {} /\ on_disk # {}) => HandedBack(snapshot[Min(on_disk)])
           /\ (in_memory = {} /\ on_disk = {}) => retrieve_call.message = None

\* The id is in the snapshot only, and the message comes from there.
C22_Witness ==
    /\ retrieve_call.kind = "returned"
    /\ retrieve_call.id = "msg_r"
    /\ PositionsOf(run_history, "msg_r") = {}
    /\ retrieve_call.message # None
    /\ The(retrieve_call.message).content[1].id = "t_click"
\* The snapshot holds the id and cannot be read: None.
C22_WitnessUnreadable ==
    /\ retrieve_call.kind = "returned"
    /\ ~retrieve_call.read_ok
    /\ history_file # None
    /\ PositionsOf(The(history_file), retrieve_call.id) # {}
    /\ retrieve_call.message = None

(***************************************************************************)
(* Persistence, checked under SpecDisk.                                    *)
(***************************************************************************)
\* C21: a step that calls _save_history_to_disk on a disk that fails does
\* not raise and changes the Store as the same step does on a disk that
\* works: stop_run leaves the history with its notice appended; the start of
\* run_agent leaves the history of one instruction, the flag true, no error,
\* and goes on to the loop test; the loop's save of every fifth message
\* leaves the history with the response appended and, for a response that
\* decodes to an action, goes on to perform_action with the flag and the
\* error as they are.
C21_SaveFailureIsNotFatal ==
    [][\A d \in DiskFailures :
           /\ StopRun(d, MaxDiskHistory)
                  => /\ ~save_call'.raised
                     /\ run_history' =
                            Append(run_history,
                                   TextMessage(Len(run_history), StopNotice))
           /\ \A t \in Threads :
                  (RunAgent_Start(t, d) /\ error = None)
                      => /\ ~save_call'.raised
                         /\ run_history' = <<Instruction>>
                         /\ running' /\ error' = None
                         /\ loop_pc'[t] = "head"
           /\ \A t \in Threads, o \in DiskRunOutcomes :
                  (RunAgent_Respond(t, o, d) /\ o.ok /\ Len(run_history) % 5 = 0)
                      => /\ ~save_call'.raised
                         /\ run_history' = Append(run_history, The(o.response))
                         /\ The(o.response).content[1].id = "t_click"
                                => /\ loop_pc'[t] = "acting"
                                   /\ running' = running
                                   /\ error' = error]_vars

\* The save of the sixth message failed and the thread is in perform_action.
C21_Witness ==
    /\ save_call.outcome \in DiskFailures
    /\ ~save_call.raised
    /\ Len(run_history) = 6
    /\ history_file # Some(run_history)
    /\ loop_pc["t1"] = "acting"
    /\ running /\ error = None

(***************************************************************************)
(* What a stop leaves behind, checked under SpecRun, where every write to  *)
(* the disk succeeds.                                                      *)
(***************************************************************************)
\* The only run so far was asked to stop and its thread has left run_agent.
StoppedAndExited ==
    \E t \in Threads :
        /\ stopped[t]
        /\ loop_pc[t] \in {"done", "finished"}
        /\ \A u \in Threads \ {t} : loop_pc[u] = "none"
IsStopNotice(m) ==
    IsOneTextUserMessage(m) /\ m.content[1].text = StopNotice

\* C27: once stop_run has returned and the thread it stopped has left
\* run_agent, the screenshot cache is empty, the stop notice is the last
\* message of the history and the history file holds the whole history.
C27_StopLeavesCleanState ==
    StoppedAndExited
        => /\ screenshot_cache = EmptyMap
           /\ IsStopNotice(LastMessage)
           /\ history_file = Some(run_history)

\* The thread was waiting for the gateway when stop_run ran: its
\* response and the outcome of its action follow the notice, and the
\* screenshot of the action is in the cache.
C27_LoopWritesAfterStop ==
    /\ StoppedAndExited
    /\ screenshot_cache # EmptyMap
    /\ ~IsStopNotice(LastMessage)
    /\ \E i \in DOMAIN run_history : IsStopNotice(run_history[i])
    /\ history_file # Some(run_history)

(***************************************************************************)
(* The age of a cached token count                                         *)
(***************************************************************************)
\* count_tokens(t) answers from token_count_cache.
AnsweredFromTokenCache(t) ==
    /\ \E o \in CountOutcomes : CountTokens(t, o)
    /\ count_call'.kind = "returned"
    /\ count_call'.cached # None

\* C31: a token count cached more than cache_ttl seconds ago is expired:
\* count_tokens does not return it, it computes the count again.
C31_ExpiredCountNotReturned ==
    [][\A t \in TokenTexts :
          AnsweredFromTokenCache(t)
              => ~CacheExpired(token_count_cache[ComputeHashValue(t.chars)].age)]_vars

(***************************************************************************)
(* The region of interest                                                  *)
(***************************************************************************)
\* The region <<x, y, w, h>> lies within a screen of the given size.
WithinScreen(region, size) ==
    /\ region[1] >= 0 /\ region[2] >= 0
    /\ region[3] > 0 /\ region[4] > 0
    /\ region[1] + region[3] <= size[1]
    /\ region[2] + region[4] <= size[2]

\* C33: for every pointer position, element type and screen size the region
\* returned by get_region_of_interest lies within the screen.
C33_RegionWithinScreen ==
    region_call.done => WithinScreen(region_call.region, region_call.size)

\* What holds of the code: the region lies within the screen when the preset
\* of the element type fits on the screen.
RegionWithinScreenWhenPresetFits ==
    (/\ region_call.done
     /\ RegionPreset(region_call.element_type)[1] <= region_call.size[1]
     /\ RegionPreset(region_call.element_type)[2] <= region_call.size[2])
        => /\ WithinScreen(region_call.region, region_call.size)
           /\ region_call.region[3] = RegionPreset(region_call.element_type)[1]
           /\ region_call.region[4] = RegionPreset(region_call.element_type)[2]

(***************************************************************************)
(* The cadence of the history snapshot                                     *)
(***************************************************************************)
\* The messages of the in-memory history that the history file does not hold.
UnsavedMessages ==
    Len(run_history) - (IF history_file = None THEN 0
                        ELSE Len(The(history_file)))
LoopRunning ==
    running /\ \E t \in Threads : loop_pc[t] \in {"head", "request", "acting"}

\* C32: during a run the snapshot is written at least once per 5 appended
\* messages: while the loop is running the in-memory history never holds
\* more than 5 messages appended after the most recent snapshot.
C32_SnapshotEveryFiveMessages == LoopRunning => UnsavedMessages <= 5

\* What holds of the code on a disk that takes every write: the snapshot is
\* a prefix of the in-memory history.
SnapshotIsPrefixOfHistory ==
    LoopRunning
        => /\ history_file # None
           /\ The(history_file) = SubSeq(run_history, 1, Len(The(history_file)))

(***************************************************************************)
(* Typing at the last click position                                       *)
(***************************************************************************)
\* perform_action(a) for a 'type' action whose input reaches the OS.
TypedText(a) ==
    /\ a.type = Some("type")
    /\ \E r \in ExecRuns : PerformAction(a, r[1], r[2], r[3])
    /\ os_calls' # << >>

\* C34: for a 'type' action, when a last click position is recorded and the
\* pointer is elsewhere, a click at the recorded position is issued before
\* any character is written; when the pointer is already there, or no
\* position is recorded, the text is written without an extra click.
C34_ReclickBeforeTyping ==
    [][\A a \in ExecActions :
          TypedText(a)
              => IF last_click_position # None /\ The(last_click_position) # pointer
                 THEN /\ os_calls' = <<OsCall("click", last_click_position, << >>),
                                       OsCall("write", None, The(a.text))>>
                      /\ pointer' = The(last_click_position)
                 ELSE /\ os_calls' = <<OsCall("write", None, The(a.text))>>
                      /\ pointer' = pointer]_vars

\* A text was typed after a click at the recorded position, away from the
\* place of the pointer before the call.
C34_Witness ==
    /\ action.type = Some("type")
    /\ Len(os_calls) = 2
    /\ os_calls[1] = OsCall("click", last_click_position, << >>)
    /\ os_calls[2].fn = "write"
    /\ pointer = The(last_click_position)

(***************************************************************************)
(* The action types of the decoder and of the executor                     *)
(***************************************************************************)
\* C36: every action extract_action decodes (neither an error nor finish) is
\* one perform_action can dispatch: when the screen capture and the OS input
\* succeed, the executor does not fail on a decoded action.
C36_DecodedActionIsDispatched ==
    [][\A t \in Threads :
          RunAgent_Act(t, TRUE, TRUE) => exec_result' # ActionFailed]_vars

\* What holds of the code: the executor fails on a decoded action, with the
\* capture and the input succeeding, only for the two types the decoder
\* accepts and the if/elif chain of perform_action lacks.
OnlyMockTypesAreUndispatched ==
    [][\A t \in Threads :
          (RunAgent_Act(t, TRUE, TRUE) /\ exec_result' = ActionFailed)
              => loop_action[t].type \in {Some("mouse_click"), Some("keyboard_type")}]_vars

(***************************************************************************)
(* The ids of the messages of a history                                    *)
(***************************************************************************)
\* The messages run_agent and stop_run build themselves (the dicts); a
\* BetaMessage arrives with the id the API gave it and keeps it.
BuiltByStore(h) == {i \in DOMAIN h : ~h[i].sdk}

\* C35: within one run's history no two messages carry the same id: every
\* message appended by run_agent or by stop_run has the id
\* user_{session}_{index} whose index is its position in the history, under
\* every interleaving of stop_run with the loop thread.
C35_IdsAreUniqueAndPositional ==
    /\ \A i \in BuiltByStore(run_history) : run_history[i].id = UserId(i - 1)
    /\ \A i, j \in BuiltByStore(run_history) :
           i # j => run_history[i].id # run_history[j].id

\* Two messages of the history carry the same id.
C35_TwoMessagesWithOneId ==
    \E i, j \in BuiltByStore(run_history) :
        i # j /\ run_history[i].id = run_history[j].id

\* What holds of the code when stop_run is not interleaved with the thread
\* of run_agent: in SpecRun and SpecCadence every handler is one step.
IdsPositionalWithoutInterleaving ==
    \A i \in BuiltByStore(run_history) : run_history[i].id = UserId(i - 1)

(***************************************************************************)
(* A run after a run that ended with an error                              *)
(***************************************************************************)
\* C37: after a run has ended with an error (a decode error or a gateway
\* failure), a later run_agent call on the same Store starts a new loop: it
\* resets the history to the new instruction and goes on to the gateway
\* request instead of returning with the earlier error.
C37_RunAfterErrorStartsNewLoop ==
    [][\A t \in Threads :
          (error # None /\ RunAgent_Start(t, "ok"))
              => /\ running'
                 /\ error' = None
                 /\ run_history' = <<Instruction>>
                 /\ loop_pc'[t] = "head"]_vars

\* What holds of the code: once self.error is set, every later run_agent
\* call returns at line 202, and nothing clears self.error.
ErrorIsNeverCleared ==
    [][error # None => error' # None]_vars

(***************************************************************************)
(* The alternation of assistant and user messages                          *)
(***************************************************************************)
\* C38: every iteration that does not end the run appends exactly one user
\* message after the assistant message it appended, so every history handed
\* to the gateway ends with a user message and never holds two consecutive
\* assistant messages.
C38_HistoryAlternates ==
    /\ \A t \in Threads :
           loop_pc[t] = "request"
               => run_history[Len(run_history)].role = "user"
    /\ \A i \in 1..(Len(run_history) - 1) :
           ~(run_history[i].role = "assistant"
                 /\ run_history[i + 1].role = "assistant")

\* What holds of the code: an iteration appends no user message exactly when
\* perform_action returns None, that is when both screenshots are skipped.
NothingAppendedOnlyWhenBothSkipped ==
    [][\A t \in Threads :
          RunAgent_Act(t, TRUE, TRUE)
              => IF loop_action[t].skip_before_screenshot
                        /\ loop_action[t].skip_after_screenshot
                        /\ exec_result' = NoneResult
                 THEN run_history' = run_history
                 ELSE /\ Len(run_history') = Len(run_history) + 1
                      /\ run_history'[Len(run_history')].role = "user"]_vars

(***************************************************************************)
(* The two caches of get_next_action                                       *)
(***************************************************************************)
\* C39: after any sequence of successful get_next_action calls and
\* _clean_cache calls, every entry of the conversation-hash cache maps to a
\* response hash that is present in the response cache, whose entry is at
\* least as young as the mapping.
C39_MappingsPointToStoredResponses ==
    \A k \in DOMAIN message_hash_cache :
        LET e == message_hash_cache[k]
        IN /\ e.v \in DOMAIN response_cache
           /\ response_cache[e.v].age <= e.age
           /\ ComputeHashValue(response_cache[e.v].v) = e.v

\* Two conversations map to one response: the mapping of the first has
\* expired, the response was stored again with the second and is fresh.
C39_Witness ==
    \E k1, k2 \in DOMAIN message_hash_cache :
        /\ k1 # k2
        /\ message_hash_cache[k1].v = message_hash_cache[k2].v
        /\ CacheExpired(message_hash_cache[k1].age)
        /\ ~CacheExpired(message_hash_cache[k2].age)
        /\ ~CacheExpired(response_cache[message_hash_cache[k1].v].age)

====
